# Verification of DanteGPU

DanteGPU is a marketplace for GPU time: providers list GPUs, renters reserve one,
run jobs on it and pay per use, with an escrow on Solana (Covenant) between the
two. The repository names six verbs: LIST, DISCOVER, RENT, RUN, METER, SETTLE. The
modules here model the parts that move money or work (LIST, RENT, RUN, METER and
SETTLE) and the programs around them: accounts, gateways, caches, the older agent, the
rental CLI, pricing and monitoring.

## Inventory

| component | state | operations | what is hard |
|---|---|---|---|
| billing-payment-service | tables wallets, rental_sessions, usage_records, transactions | create wallet, balance, deposit, withdraw, start, usage, end, dispute | handlers run concurrently, hold no row lock and open no transaction; each makes up to six calls, any of which may fail; chain transactions are sent, not awaited |
| Covenant client (in billing) | escrow on the chain, entry in the Covenant index | create+accept, submit work, dispute, finalize; index | two stores that different calls write |
| payout crank (in billing) | the list of a tick | list ripe jobs, finalize each | stale list, one page only |
| scheduler-orchestrator-service | table jobs, JetStream consumer | fetch, match, open session, publish task, store state, ack/nak | at-least-once delivery, several processes, every call may fail or its answer be lost |
| provider-daemon | activeJobs, runTask goroutines, health verdict, workspaces, containers and script processes, metering goroutines | accept or reject a task, run it as a script or in a container, meter it, report, end the session, clean up | acknowledgement before completion, duplicate deliveries that share a workspace, two timeouts and a container that may outlive both, crash |
| rental-service | gpu_instances, gpu_rentals, users.balance | create, start, stop | checks outside the transaction, reads without locks |
| job messages | four Go structs matched by JSON keys | marshal, store, reload, unmarshal | missing keys are silently zero |
| provider-registry-service | tables providers (status, owner, last heartbeat) and gpu_details | register, update, status, heartbeat, delete | transactions of several statements overlap under READ COMMITTED; a transient error is retried, also after a COMMIT whose answer was lost |
| auth-service | users, login attempts, sessions, reset tokens, second factors, API keys; sessions and counters in Redis | register, login, refresh, logout, revoke, reset, second factor, API keys | every handler is several statements without a transaction; locks and one-time codes under overlapping requests; keys with a time to live beside sets that index them |
| provider agent (cmd/provider) | job queue, two worker pools, activeJobs, containers, billing sessions | start, take a task, run it, settle, shut down | shutdown at any moment against queues, deadlines and running containers |
| api-gateway | websocket hub, round-robin counter, wallets and jobs at its upstreams | route, forward, publish, broadcast | slow or leaving clients while others send; lost answers; changing upstreams |
| simple gateway (main-simple.go) | gpus, wallets, rentals in SQLite | create wallet, create rental | several statements, no transaction, errors only logged |
| rental CLI (cmd/rental) | token, wallet id | log in, set up a wallet, submit, status, cancel | lost answers, second instance of the same user |
| pricing engine (in billing) | base rates; the rates a session keeps | quote, start, usage, end | choice among resembling models; what the quote promises and the bill takes |
| redis cache service | copies of GPU and job state, index sets, rate counters | set, get, invalidate, limit | several commands per call, keys that expire in between |
| gpu-monitoring-service | GPU records, websocket viewers | collect, broadcast, greet, read | two locks, data used after its lock was released, writes to one connection from two goroutines |
| provider-daemon: configuration and task subscription | configuration file, NATS subscription, fetch loops | load, change and save; subscribe, reconnect, fetch, stop | the file is truncated and rewritten by overlapping processes; callbacks and loops replace one subscription without a lock |
| Kratos integration | copies of sessions in Redis | check a session, keep a copy | sessions end at Kratos while copies are written and read |
| device plugin, storage, gpu-service, other cmd/* | none that changes | | see "Not modelled" |

How they interact: the gateway publishes a job to NATS; the scheduler takes it,
asks the registry for idle providers, calls `POST start session` of billing and
publishes a task to the provider's subject; the daemon takes the task, runs it and
calls `end session` of billing; billing opens the escrow when a session starts,
submits the work when it ends, and its crank finalizes escrows whose challenge
window is over. rental-service keeps reservations of its own and does not call
billing. The rental CLI and the console reach the services through the gateway; the
simple gateway stands alone. The agent in cmd/provider calls billing by itself, with
tasks from a queue that nothing in the repository fills.

## Modules

| module | models | extends |
|---|---|---|
| `Covenant` | escrow on the chain, index, sending a transaction | |
| `Billing` | the eight operations of billing-payment-service | `Covenant` |
| `Settlement` | the manager's operations and the payout crank | `Covenant` |
| `Dispatch` | scheduler consumer, queues, daemon task handler | |
| `TaskRun` | what scheduler and billing rely on of one run of a task (abstract) | |
| `Executor` | the daemon from HandleTask to the last clean-up, its executors and its monitor; implements `TaskRun` | |
| `Matching` | suitability gate, choice of the billing GPU (operators only) | |
| `JobWire` | a job's way from renter to daemon: its structs, the first-fit loop | `Matching` |
| `Registry` | the five writing operations of provider-registry-service on PostgreSQL | |
| `Reservation` | what a renter may rely on of rental-service: leases made, begun and ended in one step each (abstract) | |
| `Rental` | rental-service; implements `Reservation` | |
| `Account` | auth-service's handlers on the tables of one account | |
| `RedisKeys` | the clock and keys with a time to live | |
| `SessionStore`, `CacheService` | auth-service's Redis session store and rate limiter; redis-cache-service | `RedisKeys` |
| `Agent` | the provider agent: pools, tasks, shutdown | |
| `Hub`, `Balancer` | the gateway's websocket hub; its load balancer | |
| `Gateway`, `RentalClient` | the gateway's routes and upstream calls; the rental CLI in front of it | `RentalClient` extends `Gateway` |
| `SimpleGateway` | the stand-alone gateway | |
| `Pricing` | base rate, quote, the rates of a session, the bill | |
| `Monitor` | the GPU monitoring service | |
| `KratosCache` | the session middlewares of the Kratos integration | |
| `Settings`, `TaskFeed` | the daemon's configuration file and commands; its NATS client | |
| `BillingProofs` | theorems about `Billing` and `Settlement` | `Billing`, `Settlement`, `TLAPS` |
| `ExecutorProofs` | theorems about `Executor` and the tasks of `JobWire` | `Executor`, `JobWire`, `FoldLemmas`, `TLAPS` |
| `RentalProofs` | theorems about the two programs that sell GPU time by themselves, `Agent` and `Rental` | `Agent`, `Rental`, `TLAPS` |
| `DispatchProofs`, `RegistryProofs`, `AccountProofs` | theorems | the module of that name, `TLAPS` |
| `EdgeProofs` | theorems about the components at the edge and their composition | `MCEdge`, `FoldLemmas`, `TLAPS` |
| `FoldLemmas` | lemmas: induction over the subsets of a finite set, folds, sums | `TLAPS` |
| `MC*` | instances for TLC; `MCEdge` joins the components at the edge | the module of that name |

**Billing.** A request is a number, `pc[r]` the call it makes next, `lw[r]` and `ls[r]`
its copies of a wallet and a session row. Every call of the store, of Solana or of
Covenant is one action, so another request may run between the read of a row and the write
that depends on it. `AvailableBalance`, `CanSpend`, `LockFunds`, `UnlockFunds`,
`DeductFunds` and `AddFunds` are the methods of `models.Wallet`. Amounts are whole
numbers: the service's decimals are only added, subtracted and compared in what is
modelled. Those of deposits and withdrawals have either sign, as their handlers decode a
request and never run the validation that its tags name; what then stops an amount below
one is the table's `CHECK (amount > 0)`, which a deposit meets after its wallet was
written and a withdrawal before. The hourly rate and the final cost are inputs, as the
pricing engine computes them. `applied`, `moved`, `due` and `serial` are history
variables; `serial` is true as long as no request was started while another was under way,
and `Never(o)` says that operation `o` was not requested so far. The constant `Faults`
names what may go wrong: a store call fails (`Fail`), a sent transaction is dropped or
lands after an error (`Send`), the Covenant API fails (`IndexPost`), the process dies
(`Crash`). A call that takes effect and then reports an error is covered by the call
followed by a failure of the next one.

**Settlement.** `left[j]` is what remains of a job's window and `work` the list of
the running tick. `ListJobs` returns one page; which one, if there are more jobs than
it holds, is the API's choice; the run's page
holds all its jobs. `ApiSync`, the chain and the clock are external.

**Dispatch.** A worker is the fetch loop of one scheduler process. `msg[j]` is the job's
message, `task[s]` the task that carries session `s`, `run[s, n]` the goroutine of the
n-th delivery of that task. A failing NAK is answered with an ACK as in the code. The
provider a task goes to is the one its session was opened for. The registry is the set
`idle`; which providers suit a job is the constant `Suits` (`Matching` defines how that is
decided). A message may expire, as the stream keeps it for its MaxAge and discards the
oldest when it is full (`Expire`; `cmd/setup-nats` configures both). A run ends `done`, or
`failed` without a workspace, `refused` when billing refused the one attempt to end its
session, or `dead` with its daemon. The history variable `late` is true once an
acknowledgement was late or lost or a scheduler died, `dropped` holds the jobs that left
the queue because a NAK failed or their message expired.

**TaskRun, Executor.** A run is one delivery of a task, so two runs of one job are a
task delivered twice. `pc[r]` is the call the run makes next. `ctx[r]` is the context
with RequestTimeout, `overdue[r]` says that the task's own `timeout_seconds` has passed;
`proc[r]` and `exit[r]` are the container or the script's process, `monitor[r]` the
goroutine that meters a container. `kept` and `straggler` are history. `Faults` names what
may fail: a file operation, a call of Docker (with or without its effect), the start of
the interpreter, the end of the session, the daemon. Container logs and inspection are
left out: they decide nothing. `TaskRun` keeps one phase per run, and `Executor` maps its
state to them with `Abstract == INSTANCE TaskRun WITH run <- Phase`; it is the level of
detail at which `Dispatch` knows the daemon. Tasks with an execution type can only come
from a publisher other than this repository's scheduler, whose `Task` has none; with the
scheduler's tasks every run takes the default branch of the switch.

**Matching, JobWire.** A job goes from the gateway's request to the daemon's task. A
struct is a function on its JSON keys; `Marshal` leaves out `omitempty` keys that are
zero and fields tagged `-`; `Unmarshal` gives missing keys their zero value. The
registry answers with any list; `Skip`, `Select` and `NoProvider` are the loop of
`scheduleJob` and its outcome, `Bill` the choice of the GPU and the session request.
`Fits`, written independently of the gates, is what the request's fields mean. The
renter's own copy of the request, `asked`, is what the properties compare with.

**Registry.** A request is a number; `pc[r]` is the statement it runs next and `tx[r]`
what its transaction has written and nobody else sees before COMMIT. `lock[p]` is the
row lock that an UPDATE or DELETE of provider `p` takes and that ends with the
transaction. Between two statements any other request may run. The loop that inserts
the GPUs of a provider is one step, as its rows are visible only after COMMIT. `Faults`
names what a statement or a COMMIT may meet: an error that is final, one that
`retryOnError` repeats, a COMMIT that took effect although its answer was lost, the
death of the service. `by`, `sent` and `report` are history: who wrote a list, what a
request carried, what a heartbeat last reported. The client itself does not repeat a
request.

**Rental.** The reads of `createRental` and `stopRental` are steps of their own; the
writes of a transaction are one step at its commit. `startRental` is one step: its
condition is in the `WHERE` of the `UPDATE`. A failed statement rolls back. The hours
asked for have either sign, as nothing checks `duration_hours`. `stops`
and `serial` are history variables. `Agreed == INSTANCE Reservation` maps the rows to
leases: `Book` is the rentals that exist, `OnOffer` the GPUs that are available, and
`alone` is `serial`. The creation of a rental implements `Make`, its start `Begin`, the
transaction of a stop `End`, and every read a stutter. Where requests overlap,
`Reservation` gives up the guards (a GPU may be leased twice, a lease end again) and
keeps the rest: a lease goes `pending`, `running`, `completed`, keeps its user, GPU and
start, and is charged to its own user by the time since that start.

**Account.** One user; a request is a number and names what it creates. `pc[r]` is the
statement it runs next. `db` is what the tables say: the lock and the number of recent
failures, the session rows, the methods of the second factor with their secrets, the
codes and tokens. The codes that were sent are rows in the order of their creation,
each open, used or expired: a check looks at the newest that is not used. Time is a set
of steps by which a lock, a session or a token expires.
`hist` is history; `hist.apart` holds the groups of handlers (login, factor, refresh)
of which no two requests have overlapped, `hist.unmarked` says that a write that marks
a code as used has failed.

**Agent.** `workers[w]` is a worker of one of the two pools with its task and the next
step of `executeTask`; a worker of the first pool that looked at its queue before
`Initialize` replaced it stays on the old one. `expired[t]` is the task's deadline,
`metrics[t]` its metering goroutine, `session` and `container` what billing and Docker
hold, `faults` the tasks for which a call about them failed or lost its answer: also a
container may have been made by a call that reports an error. A script ends when
`cmd.Run` returns (`ScriptEnds`), which nothing forces. The shutdown cancels the
context, closes the queue and waits for the workers.

**RedisKeys, SessionStore, CacheService.** A key is the instant it lapses, `Absent` or
`Forever`; a lapsed key reads as absent, and a command on it behaves as Redis does (INCR
and SADD create a key without an end, EXPIRE on an absent key does nothing). Every
command is a step and a call may die between two. The time to live of a session and of
the user's set is computed once, before the first of the commands that use it
(`CreateTTL`). `overtaken`, `rateDied`, `contended`
and `skipped` record the overlaps and losses that the properties except.

**Hub.** Steps are those between two points at which a goroutine can be preempted,
under the hub's read-write lock as the code takes it: the broadcast case of `Run` holds
the read lock and yet deletes and closes. A message is a place in a buffer.
`panicked` is the end of the process.

**Gateway, RentalClient.** `Routes` says of each kind of request how its handler deals
with it (answers itself, publishes, relays, or calls the billing client), with the status
of success and whether that tells of a change: a payout is accepted with 202 and nothing
is done, a job's 202 says that the NATS client has it in its buffer, from where `Deliver`
takes it to the server or loses it. A service finishes what it was asked although the
gateway or the client gave up. The CLI logs in, looks for a wallet, creates one and shows
its menu; `OtherClient` is anyone else with the same gateway, also another CLI of the same
user.

**SimpleGateway, Balancer.** One SQL statement per step, with UPDATEs whose errors are
only logged; between any two of them the process may die (`Crash`), after which a request
stays `dead` and what it wrote stays too. `WalletBalance`, `ListRentals` and `ListGPUs`
are the gateway's own reads, and the properties are about what they answer. In
`Balancer` a request first gets the list of instances from Consul (`Discover`) and then
picks (`Next`); in between the instances may change, and its list is then `stale`. The
counter wraps at `CounterSize`, which stands for 2^64. `served` counts picks since the
last change, `strays` those that went elsewhere: to another service, or by a stale list.

**Pricing.** A model name is a set of words; containment of names is containment of
sets. All amounts are scaled so that they stay whole. The choice of a partial match is
any of the candidates, as Go iterates a map in any order. A session keeps the rates of
its quote, and `Cost` is the bill's formula on them.

**Monitor.** The record of a GPU has two fields that an update writes one after the
other; a message or an answer reads them one after the other. `writers[v]` is who is
inside a write to a viewer's connection: two at once is the library's panic.

**KratosCache.** A request carries a cookie that Kratos made for a session, or one that
the client made up and whose first part is any session's ID; the look-up in Redis, the
question to Kratos and the write of the copy are steps of their own, each of which may
fail. A copy is looked for under the first part of the cookie and stored under the
session's ID; `CookieID` says what the first part of a genuine cookie is, the session's
ID or, for a sealed cookie, something else.

**Settings.** A process is a run of the daemon's program, as the daemon or with one of
its commands. It loads the file, works on its copy and writes the whole file back;
`os.WriteFile` is two steps, truncation and write, and a process may die between any two.
`promised` is the reference: what the owner wrote and every change that was reported as
saved. `mixed` and `cut` record that processes overlapped and that one was cut off while it
wrote.

**TaskFeed.** The connection, the subscription and up to three fetch loops. Each
`startSubscription` that succeeds starts a loop, whoever calls it. A message that was
fetched is handled as in `Dispatch` and `Executor`.

**MCEdge.** The components at the edge share no state, so one run checks them one at a
time: `focus` is chosen in the initial state and only the component it names moves.

## Runs that pass

| run | properties | bounds |
|---|---|---|
| `billing` | `Solvent`, `LockCovered`, `Accounted`, `ChargedOnce`, `EscrowBehindSession`, `RecordsAgree`, `EndedStaysEnded` | one renter, three requests of any kind, overlapping in every way, amounts -1 and 2, escrow on, all faults |
| `settlement` | `PayoutRespectsWindow`, `EveryDeliveredSettled` | two jobs, window of two ticks, all faults |
| `dispatch` | `NoJobLost`, `RunsOnce`, `BilledWhileRunning` | one job, two workers, two sessions, every fault |
| `dispatch_live` | `EveryJobDispatched`, `EverySessionClosed` | one job, one worker, two sessions, each task run once, every fault but late acknowledgements of tasks |
| `executor` | `UsedIsBilled`, `RunsSound`, `EveryRunSettles`, `ImplementsTaskRun` | two deliveries of one task of any kind, Docker reachable or not, both executor types, all faults |
| `placement` | `PlacedRight`, `RequirementsKept` | every combination of zero and non-zero fields, all lists of up to two providers with up to two GPUs |
| `registry` | `RowsSound`, `LocksReleased`, `MaintenanceHolds` | three requests of any kind, overlapping in every way, up to three provider ids, lists of one or two GPUs, two attempts, all faults |
| `rental` | `NoGPUStranded`, `SerialRentals`, `ImplementsReservation` | one GPU, two renters, four requests, overlapping in every way, hours -1 and 1, one tick of the clock, failing statements |
| `account` | `LockHolds`, `FactorSound`, `TokensUsable` | three requests of any kind on an account to be made or one whose second factor is pending, an authenticator or a code, two attempts before a lock, every statement may fail, everything may expire |
| `agent` | `SessionsSettled`, `ContainersReaped`, `Drained`, `ShutdownReturns` | two tasks, pools of one worker each, one background goroutine, a queue of one, every call may fail, shutdown at any time |
| `edge` | `RedisSound`, `SocketsSound`, `RentalsSound`, `AnswersTrue`, `RoundRobinFair`, `PricesSound`, `DaemonSound` | two callers of two sessions, of two GPUs, of one counter; two websocket clients with buffers of one; three requests on two GPUs with escrows -1 and 2; four requests to the gateway; up to three instances, two proxy requests at a time, two strays and a counter modulo five; eight model names, up to 90 minutes; two viewers; three requests on two sessions of Kratos; three processes on a configuration with one GPU; three fetch loops |

Several of these are conjunctions of parts that have a definition and a comment of
their own: `RecordsAgree` (`DeliveredWasEnded`, `CostMetered`, `PaymentsAudited`),
`RunsSound` (`CompletedSucceeded`, `NoGhostJobs`, `WorkspaceKept`, `OneStraggler`),
`PlacedRight` (`FirstFit`, `BilledIsBest`), `RowsSound` (`ListsWhole`,
`MetricsByPosition`, `RegisteredOnce`), `SerialRentals` (`ExclusiveGPU`, `StoppedOnce`),
`FactorSound` (`OneTimeCodes`, `EnabledWasVerified`), `RedisSound` (`LoggedOutForGood`,
`LimiterLifts`, `ListedIsAvailable`, `OvershootBounded`, `KnownWasVouched`), `RentalsSound`
(`RentalsBacked`, `OverbookNeedsOverlap`), `AnswersTrue` (`AppliedAsTold`,
`MenuHasWallet`), `PricesSound` (`QuotesAgree`, `HourCovered`), `SocketsSound`
(`LeavingIsSafe`, `NoDeadViewers`, `AnswersWhole`) and `DaemonSound` (`SavedIsKept`,
`StartsAsConfigured`, `FeedAlive`).

Why these bounds: what can go wrong with one wallet, GPU or session is a read of one
request, a complete write of another and the write of the first; two requests show it, and
a third sets up the session they work on or sees the result. Two wallets never interact,
so one is enough. In `Dispatch` two workers and a redelivery give two schedulers inside
one job; two sessions let a job be dispatched twice. Two runs of one job are what shares a
workspace, a session and an entry of the active jobs. In `Account` a third request can set
up what the other two race for, and accounts start with a session, and with a factor that
is enabled or pending. With one worker in each pool the agent's two pools already share
the queue, or fail to. Of amounts, hours and escrows one is taken on each side of zero.
Four HTTP requests are the three of the CLI's start and one of another client. The window
of two ticks has an inside, a last tick and an end. `MaxRequests`, `MaxChain`,
`MaxSessions`, `MaxRuns`, `MaxIds`, `MaxAttempts`, `MaxInstances`, `MaxStrays` and
`MaxTime` are bounds of the model; the theorems below do not depend on their values.

Conditions on history: `Accounted`, `ChargedOnce`, `ExclusiveGPU` and `StoppedOnce`
are stated for behaviours in which requests do not overlap (`serial`), and
`DeliveredWasEnded` and `EndedStaysEnded` for those that are serial or have no usage
update, because a usage update writes back the row of a session that may have been
ended meanwhile. `LockHolds`, `FactorSound` and `TokensUsable` are about behaviours in
which no two logins, no two users of the second factor or no two refreshes overlap; all
other handlers may. `OverbookNeedsOverlap` is about rentals that do not overlap and whose
UPDATEs all wrote their row, `SavedIsKept` and `StartsAsConfigured` about commands that
neither overlap nor die while writing. Without the condition they do not hold (see
"Disagreements"); with it those of billing, rental-service and auth-service show that no
error path and, where crashes are modelled, no crash breaks them. `LockCovered` and
`Accounted` also exclude balance queries, which overwrite the stored balance. `RunsOnce`
is about behaviours in which no acknowledgement was late and no scheduler died. The
behaviours that meet these conditions are prefixes of the same runs: nothing is
switched off in the configuration.

Other properties name their exceptions instead. `Solvent` and `LockCovered` except the
wallets on which a negative deposit was put (`Debited`), `EverySessionClosed` the runs
that got no workspace, were refused by billing or died, `EveryJobDispatched` a job whose
attempts fail for ever, `SessionsSettled` and `ContainersReaped` what a failed call was
about. In the simple gateway a crash does break things: a request cut off after its INSERT
leaves a rental that has locked nothing and whose GPU may still be offered. `RentalsBacked`
and `OverbookNeedsOverlap` say that only such rentals (`Cut`) are exempt, and that a crash
overdraws no wallet. `RoundRobinFair` grants one request of difference for each stray pick
and each wrap of the counter: a stale list or a wrap costs that much and never more.

Workers of `Dispatch` are interchangeable, so `dispatch` uses their symmetry; the
liveness runs do not. `edge`, which checks invariants only, uses that of the callers of
Redis and of their sessions; the simple gateway's requests, users and GPUs are also alike,
so there they come in order and the first names one user and one GPU (`InOrder`). The
clock ticks once for the session store, so that each lifetime is over or is not.

Deadlock is checked in Account, Billing, Dispatch, Executor, Registry and Rental (`Quiet`
is the state in which the bounds are used up). Settlement and JobWire may stop: all jobs
are settled, the task has arrived. The agent stops after its shutdown, and the edge
components where their bounds are used up or the process has panicked.

### Fairness

`Settlement!FairSpec`: the clock runs, the ticker calls the crank again and again, the
crank tries every job of its list (weak fairness), and of infinitely many attempts to
finalize a job that can be finalized some land (strong fairness): the crank retries at
every tick and treats no error as final. `Dispatch!FairSpec`: scheduler and daemon
processes keep running, an unacknowledged message is redelivered after AckWait (weak
fairness), and of the messages that wait none is passed over for ever (strong fairness of
`Fetches(j)`: JetStream delivers in order of arrival). Nothing is assumed of the answers
of store, registry and billing, of publications or of NAKs: all may fail for ever. So
`EveryJobDispatched` has that as its first alternative (attempts at the job fail, or kill
the scheduler, again and again), as billing does with the gateway's own jobs, whose
`user_id` is empty. Nothing is assumed of an executor either; `EverySessionClosed` is
about runs whose executor returns. A scheduler that dies, or whose fetch loop gives up
when the connection to NATS is lost (`consumer.go`), is taken to be started again.
`Executor!FairSpec`: the daemon's goroutines run, a call returns, and RequestTimeout
passes (weak fairness). Nothing is assumed of containers or scripts: a run settles because
its context ends it. One thing is taken from outside: no child of a script keeps its
output pipe open after the script was killed, as `cmd.Run` would wait for it.
`Agent!AgentSpec`: goroutines that can run do, and deadlines come (weak fairness). Nothing
is assumed of containers, of whoever offers tasks, or of the shutdown signal, and nothing
of scripts: `cmd.Run` has no `WaitDelay`, so after the kill it waits for whatever child
holds the script's output. `ShutdownReturns` therefore has as its alternative that some
worker is inside it for ever. Nothing is assumed of renters, of the registry's providers
or of acknowledgements; `EveryJobDispatched` has the existence of an idle matching
provider as its premise.

## Disagreements between code and text

In one of them, the run `billing_lost`, TLC finds the counterexample: `README.md` says
"Renter-side balance accounting is correct", and of an overlapping deposit and withdrawal
one is lost.

Others were met while modelling and are visible in the modules, without a run of
their own.

Money and work:

- `models/wallet.go` speaks of "Funds locked for active sessions", but ending one session
  unlocks all that its wallet has locked;
- `cmd/daemon/main.go` says "Log the error but continue, dockerExec will be nil": the nil
  `*DockerExecutor` in a non-nil interface passes the check, and the call panics;
- `docs/STATUS.md` has the availability check of rental-service in a transaction; it is
  made before it, and two overlapping requests both rent the GPU;
- a balance query writes the chain balance over the stored one: charges that were
  never put on the chain disappear, and more may be locked than the wallet holds
  (migration 003 of the database has `locked_balance <= balance`);
- when indexing an escrow fails, `StartRentalSession` returns without a session, so
  nobody persists the PDA as `covenant/manager.go` expects of its caller;
- `models/wallet.go` tags the amount of a deposit and of a withdrawal `validate:"gt=0"`,
  but no handler runs the validation: a negative deposit lowers the stored balance, below
  what is locked or below zero, and then leaves no transaction row, as the table refuses
  it (`Solvent` and `LockCovered` say that this is the only way);
- a task delivered twice runs twice under one job id, and the first end removes the
  entry of both from the daemon's active jobs;
- `ListJobs` returns one page of 100 jobs, so with more of them a tick need not finalize
  "every delivered, undisputed Covenant job" (`covenant/manager.go`);
- the deferred end of a session "runs for every terminal outcome" (`tasks/handler.go`),
  but not when the workspace cannot be made: `runTask` returns before it, and the session
  that was opened for the task stays open (an exception of `EverySessionClosed`);
- a script that ran into its timeout is reported with the code of the killed process
  (-1), not with -2, "Specific code for timeout";
- the gate compares the VRAM floor with the largest GPU and the power floor with the
  strongest, so no single GPU need qualify (`consumer.go` says one does), and an
  unreported power figure is guessed from the model name rather than skipped;
- the gateway's `UserID` is tagged `json:"-"`, so the scheduler never learns the
  renter, although `job.go` says the message includes it; billing refuses a session for
  an empty user, so the job is redelivered and refused until the stream discards it;
- the daemon's `task.go` says it MUST be kept in sync with the scheduler's `Task`, which
  has no execution type, so a task that was dispatched this way selects no executor;
- a heartbeat with more GPU metrics than stored GPUs is rolled back as a whole by the
  PostgreSQL store, while the memory store ignores the surplus; metrics are matched by
  position, and `JSON_AGG` in `ListProviders` has no order;
- rental-service accepts `duration_hours` of zero or less, for which an empty account
  passes the check of the balance; a rental runs as long as it runs, so the balance may
  become negative when it is stopped;
- two overlapping stops of a rental both charge it, and creating a rental locks no
  funds although `docs/STATUS.md` lists a fund lock.

Pricing:

- a session keeps the quote's VRAM and power rates, which are already multiplied by GB and
  kW, and the bill multiplies by them again: beyond one GB or one kW it outgrows the
  quote and the funds locked for it (`HourCovered` has this as its condition);
- `POST /pricing/calculate` always fails: the handler passes a pointer to a struct where
  the service expects a map, and the empty request that results has no GPU model;
- a session with no VRAM divides by zero, as `StartRentalSession` does not validate;
- the renter is quoted subtotal plus fee while the provider gets subtotal minus fee; the
  fee of a session is 5 % whatever the configuration says;
- usage updates of an ended session still add to its total.

Accounts and Redis:

- tokens are hashed with salted bcrypt and looked up by a fresh hash, so no verification
  or reset token is ever found; a login with a second factor never yields tokens;
  `Disable2FA` checks neither password nor code;
- overlapping logins can hide a lock, overlapping refreshes leave one client with a token
  of no session, and a logout with a token that was exchanged answers success and revokes
  nothing;
- `UpdateActivity` on an older session shortens the life of the user's session set, so
  that `DeleteAllUserSessions` misses newer ones, and it reports success although the DEL
  of a session failed; an update that overlaps a deletion
  brings the session back; the limiter shuts a client out for ever when a request dies
  between INCR and EXPIRE;
- the cache's limit is passed by as many requests as read at once and each request renews
  the window; `InvalidateGPUCache` leaves the set of available GPUs.

Agent, gateways, CLI and monitoring:

- the agent starts two worker pools, so up to twice `MaxConcurrentJobs` tasks run; scripts
  that fail and containers that exit with an error count as completed; queued tasks are
  dropped at the shutdown; the second task of a job replaces the first in `activeJobs`; a
  container that Docker made although the call reported an error is not removed; a script
  whose child keeps its output open keeps the shutdown waiting;
- `Run` of the hub closes a slow client's channel under the read lock while another sender
  may be about to send to it: the process panics (`LeavingIsSafe` says this is the only way);
  after its context has ended, readers that unregister wait for ever;
- the wallet address of the simple gateway is a constant in a UNIQUE column, so only one
  wallet can be created; its rentals never end; a negative escrow adds to the wallet; a
  crash between the statements of `createRental` leaves a rental with nothing locked and,
  if it came before the UPDATE of the GPU, the GPU on offer;
- the gateway answers a submission with 202 and "submitted" when the message is in the
  NATS client's buffer, from which it may be lost, and billing answers a payout request
  with 202 and does nothing;
- the CLI asks for its wallet at a path that is not routed, so it always creates one and
  its second start fails; its submissions lack the `params` the gateway requires; its
  cancellations are answered 202, which it takes for a failure;
- the balancer's counter is shared by all services, and a request picks by the list it got
  before, so a service's instances need not take turns (`RoundRobinFair` says how far
  apart that puts them);
- monitoring greets a viewer while a broadcast may be writing to it, which panics; one
  viewer that does not read blocks the broadcast and everyone who wants the lock; a
  message points to records that the collector goes on writing.

Daemon and sessions:

- the configuration is written by truncation: two commands that overlap lose a change,
  and a process that loads the file meanwhile, or after a writer died, starts from
  defaults, also for the instance ID, and may save them;
- a setting of zero is saved and reported as saved, and is the default at the next load;
- a fetch loop is to "Process one task at a time" (`nats/client.go`), but every
  reconnection and every renewed subscription starts one more, and none ends before the
  shutdown; a `PullSubscribe` that fails replaces a valid subscription by nil;
- copies of Kratos sessions have no time to live and are never removed, and are looked for
  under the first part of whatever cookie comes: once there is a copy, its session
  outlives its end at Kratos for every cookie that begins with its ID (`KnownWasVouched`
  has this as an alternative).

## Proofs

The theorems hold for all values of the constants that satisfy the assumptions in the
modules: any number of requests, users, GPUs, jobs, tasks or clients, any amounts, of
either sign where the code takes them, and prices, any subset of the faults. Seven modules
hold them, and an eighth, `FoldLemmas`, the lemmas on which two of those rest.
`BillingProofs` is about both modules on top of `Covenant`, `Billing` and `Settlement`,
whose jobs are numbered there; `ExecutorProofs` is about the daemon and, with `JobWire`,
about what it is told; `RentalProofs` is about `Agent` and `Rental`. Every property of a
passing run that is not liveness is the statement of a theorem.

Almost no invariant is inductive as it stands. The programs decide on a copy of a row
and write later, so each inductive invariant says what is true of a copy, a list or an
answer however old it is, and which calls can still use it. Where a property holds only
without overlap, the history variable that records overlap (`serial`, `late`,
`hist.apart`) is the hypothesis of the corresponding conjunct, and the conjunct says
that at most one request of the kind is under way. The layout is the same everywhere:
initial states, one lemma per action or group of actions, one for the step, then the
theorems.

**Billing** (`BillingProofs`).
- `TypeCorrect`: `TypeOK` is inductive. Besides types it says that what is locked, metered
  or recorded is never negative, although balances may be.
- `SolventCorrect` and `LockCoveredCorrect`: `FundsInv` extends both to the copies of a
  wallet that will be written, which are `Backed` (not below zero, the lock within the
  balance) unless a negative deposit was put on the wallet or is what the copy is about.
  Once put on it, it stays in the history (`DebitedStays`). A request of another kind
  never reaches a call of `GetWalletBalance` (`HandlerMoves`), and a behaviour without a
  balance query has none before (`NeverBefore`).
- `EscrowBehindSessionCorrect`, `RecordsAgreeCorrect`, `ChargedOnceCorrect` and
  `AccountedCorrect` follow from one invariant, `BillingInv`. `SessionInv` says that a
  row is inserted once, that a copy of a session that can still be written has its
  escrow and a metered cost; `OpInv` that a handler makes the calls of its own
  operation; `EndInv` that work is submitted only for a session that is completed and,
  if no usage update overlaps, stays so; `AuditInv` that a transaction row comes before
  the tokens and the balance before its confirmation; `ChargeInv` that an end under way
  found its session not charged; `AccountInv` that the copy a handler writes differs
  from the row by exactly what it applies.
- `EndedStaysEndedCorrect`, an action property, from the same invariant.

**Settlement** (`BillingProofs`). `SettlementTypeCorrect`, and
`PayoutRespectsWindowCorrect`: the crank works on a list that may be old, and `PayoutInv`
adds that the window of every listed job is over and stays over (`WorkRipe`). That a
disputed job is not paid comes from the chain, which accepts a transaction only in the
state it starts from (`LandsFrom`).

**Dispatch** (`DispatchProofs`). `TypeCorrect`, `NoJobLostCorrect`,
`BilledWhileRunningCorrect`, `RunsOnceCorrect`, from `IInv`: `SessionsInv` (a session
comes before its task, the task before its runs, the end of a run before the end of the
session), `WorkersInv` (a worker about to publish has a session of its own) and
`OnceInv` (as long as no acknowledgement was late, one worker holds a job and its one
task is covered by the ACK or by a worker on its way to it; a message that expired is
not delivered again, so it counts as acknowledged).

**JobWire** (`ExecutorProofs`). `RequirementsKeptCorrect`: `WireInv`
says of each stage that the message, the struct and the row say the same, and
`RoundTrip` that a key both sides know survives `omitempty`. `PlacedRightCorrect`:
`PlaceInv` says where the search stands, with every provider it has passed not
fitting (`FirstFit`) and, once a GPU is billed, that one the best. Both gates and the choice
of the GPU are loops, folds in the model: `BestVRAM` and `BestPower` say that the gates'
loops keep the largest value (`KeepsLarger`), so that `PassesFits` can equate the gates
with `Fits`, and `SelectedIsBest` that the last loop keeps a GPU that qualifies
and has the most VRAM of those (`KeepsBest`).

**Executor** (`ExecutorProofs`). `TypeCorrect`, `UsedIsBilledCorrect` and
`RunsSoundCorrect`, from `BilledInv` (what runs is waited for or about to be removed,
and a session was ended by a run past its end), `ResultInv`, `WorkspaceInv` and
`MeterInv` (a monitor that is to stop makes one more update at most).
`ImplementsTaskRunCorrect` shows that every initial state of `Executor` is one of
`TaskRun` and every step a step or a stutter, under the mapping `Phase`.

**Agent** (`RentalProofs`). `AgentTypeCorrect`, `SessionsSettledCorrect`,
`ContainersReapedCorrect` and `DrainedCorrect`. For each thing that must be given back
(session, container, status, entry of `activeJobs`) the invariant names the worker that
answers for it (`Paid`, `Reaped`, `Ended`, `Listed`) or the call that failed, the creation
of a container included; after Shutdown there is no worker left to answer (`Stopped`).

**Registry** (`RegistryProofs`). `TypeCorrect` says of the tables their types, of the
transactions that what they have still to write fits the tables (`Shape`), and of the
provider ids that a provider's row or a request names that the sequence has given them out
(`Given`, from `GivenKept`). `LocksReleasedCorrect` and `MaintenanceHoldsCorrect` from
`IInv`: `Shape`, `Held` (a request inside its transaction holds the lock of the row it
writes) and `Pending` (the version a heartbeat will install is still the committed row
with the new status, and a registration's id is still unused), which is preserved because
whoever changes a committed row has the lock or found it free. `RowsSoundCorrect` adds
`RowsInv`: the committed rows of each provider are whole, what a transaction has deleted
and inserted so far makes them whole again at its COMMIT, and a provider's row was written
by a request that is over or still works on it (`ByWhom`), so that a retry registers
nobody twice.

**Rental** (`RentalProofs`). `TypeCorrect`, `NoGPUStrandedCorrect` and
`StatusForwardCorrect` from `IInv`, which adds `Past` (start times and their copies are
not in the future, so that nobody is credited) and `Created` (a rental that exists was
created by a request that has returned). `SerialRentalsCorrect` from `SerialInv`: without
overlap one request runs, what it has read still holds (`Checked`), and only a completed
rental has been stopped, once (`Charged`). `ImplementsReservationCorrect` shows that every
initial state of `Rental` is one of `Reservation` and every step one of its steps or a
stutter. It needs `ReadsHold` in addition, about what a request has read by the time its
transaction runs: a stop still has the user and the start of its rental, whatever ran in
between, because nothing rewrites them once a rental runs, and as long as nothing overlaps
the user of a reservation can still pay for the hours asked for, also when these are none
or fewer. `StatusForwardCorrect` states directly, for one rental, what the refinement says
of its lease.

**Account** (`AccountProofs`).
- `LockHoldsCorrect` and `TokensUsableCorrect` from `AuthInv`: a login past the check of
  the lock goes on without one and what it counted was not overtaken (`PastLock`), a
  session's row is inserted once and revoked only when it is there (`RowOf`), and the
  token a refresh found valid is still in a row (`Found`).
- `FactorSoundCorrect` from `FactorInv`: a set-up under way began with no authenticator
  enabled and ends with a secret that was checked (`SetUp`); what was accepted is used
  up, or a request is about to mark it (`Once`); the challenge of a login that goes on
  is not verified yet (`Verifying`); and a request that may still make a code, a backup
  code or a challenge has made none (`Fresh`). The last two hold only if no write that
  marks a code failed.

**The edge** (`EdgeProofs`, over `MCEdge`). Each component has an invariant of its own
(`ClientInv`, `HubInv`, `MonitorInv`, `KratosInv`, `FeedInv`, `SettingsInv`, `StoreInv`,
`CacheInv`, `PricingInv`, `BalancerInv`, `SimpleInv`) with its initial states and steps,
and the lemma `EdgeInvariant` composes them: a step of the system is a step of one
component and leaves the others alone, except that the two components on Redis share the
clock (`RedisSteps`). From it `RedisSoundCorrect`, `SocketsSoundCorrect`,
`AnswersTrueCorrect`, `DaemonSoundCorrect`, `PricesSoundCorrect` and
`RoundRobinFairCorrect`. The rate limit is the one that needs counting: the counter plus
the callers that have read it and not yet counted stay below the limit plus one request
per other caller (`RateInv`), by the cardinality theorems of finite sets.
`AnswersTrueCorrect` rests on `RequestInv`, which says at each stage of a request how
often it can have taken effect, a job in the buffer included. `RoundRobinFairCorrect`
compares the instances' picks with an even distribution, in which the counter's turn is
next: `Near` says that no instance is above it or lags by more than the stray picks and
wraps so far, a pick in turn keeps that (`TurnKeepsNear`), and a jump of the counter costs
one (`JumpKeepsNear`). `RentalsSoundCorrect` compares two columns of a wallet with the sum
over its rentals. Of `SimpleInv`, `Backed` says that the columns add up and that `locked`
is the sum over the rentals whose last statement has run, `Alone` that a request that
overlaps no other finds what it read still true, and `HandlersSound` that a request has a
row from its INSERT on.

**FoldLemmas.** The library's induction theorems take an operator as a parameter,
which the installed provers cannot instantiate. The same argument goes through sets: in
a family of subsets of a finite set there is a smallest one (`SmallestSubset`, from the
well-founded order of strict inclusion), so a family that has the empty set and each
set that it has less one element has them all (`SubsetInduction`). From it follow that
a fold over a finite set has a result (`FoldExists`), that a sum does not depend on the
order in which it is taken (`SumAny`), and what one element more adds to it (`TotalAdd`).

The assumptions on the constants are types and the least the proofs need: `Callers`,
`FetchLoops` and the jobs of `Settlement` are finite sets, HTTP requests are numbered
from 1, at least one login attempt is allowed, limits and capacities are natural
numbers, as are the sizes, powers and bounds of `JobWire` (unsigned in the code), and
the account of `Account` starts with factors of the first secret and at most one code.
TLC evaluates each of them in the runs.

Only model-checked:
- liveness (`EveryDeliveredSettled`, `EveryJobDispatched`, `EverySessionClosed`,
  `EveryRunSettles`, `ShutdownReturns`): it rests on fairness, which is outside the
  prover's reach;
- the type invariants of `Account` and of the components at the edge beyond what their
  proofs use.

## Not modelled

- Read-only operations (gpu-service, history queries, health endpoints), formatting,
  prompts and logging, the web console: no state.
- storage-service forwards to MinIO, and the flow endpoints of the Kratos integration to
  Kratos. The Kubernetes extender is not started by any program; the stored procedures of
  the migrations have no caller. The device plugin announces a constant list.
- GPU detection in the daemon and in the agent: parsing of the output of vendor tools. The
  daemon's commands that only read.
- The chain program of Covenant is not in the repository. Its transitions are those the
  signer's instructions ask for.
- The producer of the agent's tasks: nothing in the repository fills its queue, so tasks
  are offered by an external action. The handlers package of auth-service is modelled
  although its main program has handlers of its own.
- The gateway's rewriting of proxied requests, and its `auth.go`, which answers from a
  constant.
- The registry's memory store: no main program uses it.
- A deposit signature that is sent twice: each deposit request has a transaction of its
  own in the model.
- The provider id of the registry and the daemon's instance id are taken to be the same.

## Plan

1. Abstract specifications, each with the refinement proved like `ImplementsTaskRun`
   and `ImplementsReservation`: `Ledger`, of which `Billing` without overlap is a
   refinement; an escrow lifecycle implemented by `Settlement`.
2. Compose `Registry` with `Dispatch` in the place of `idle`, and `Executor` with
   `Billing`: usage updates of the monitor against the end of the session.
3. Action properties in the place of the history variables where the inductive
   invariants now allow it, such as when an account's lock may be lifted.
