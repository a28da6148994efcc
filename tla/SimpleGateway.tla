-------------------------- MODULE SimpleGateway --------------------------
(***************************************************************************)
(* The stand-alone gateway of main-simple.go: GPUs, wallets and rentals in *)
(* one SQLite file.  A handler runs one statement after another without a  *)
(* transaction, so other requests run, or the process dies, between any    *)
(* two of them.  Amounts are whole numbers, of either sign when a request  *)
(* names them, and a rental is the request that made it.  No handler ends  *)
(* a rental.                                                               *)
(***************************************************************************)
EXTENDS Integers, FiniteSets, FiniteSetsExt

CONSTANTS
  SimpleRequests,  \* requests of a behaviour
  SimpleUsers,     \* values of the X-User-ID header
  SimpleGPUs,      \* the sample GPUs that initDB inserts
  InitialBalance,  \* of a new wallet: 1000
  Escrows          \* escrow amounts that requests name

ASSUME SimpleAssumption ==
  /\ InitialBalance \in Nat /\ Escrows \subseteq Int

VARIABLES
  gpuStatus,       \* status column of gpus
  purse,           \* wallets: available and locked by user, for users with one
  rentals,         \* requests that have a row in rentals
  handler,         \* each request: the next statement, its user, GPU, amount
                   \* and the balance it has read
  overlapped,      \* two rental requests ran at the same time
  unwritten        \* an UPDATE failed, which is only logged, or met no row

simpleVars == <<gpuStatus, purse, rentals, handler, overlapped, unwritten>>

NewRequest == [at |-> "new", user |-> "", gpu |-> "", escrow |-> 0, read |-> 0]

Statements == {"gpu", "wallet", "insert", "rent", "lock", "count", "create"}

SimpleTypeOK ==
  /\ gpuStatus \in [SimpleGPUs -> {"available", "rented"}]
  /\ DOMAIN purse \subseteq SimpleUsers
  /\ \A u \in DOMAIN purse : purse[u] \in [available : Int, locked : Int]
  /\ rentals \subseteq SimpleRequests
  /\ \A r \in SimpleRequests : handler[r].at \in Statements \cup {"new", "done", "dead"}
  /\ overlapped \in BOOLEAN /\ unwritten \in BOOLEAN

\* initDB: the sample GPUs are available.
SimpleInit ==
  /\ gpuStatus = [g \in SimpleGPUs |-> "available"]
  /\ purse = [u \in {} |-> 0]
  /\ rentals = {}
  /\ handler = [r \in SimpleRequests |-> NewRequest]
  /\ overlapped = FALSE /\ unwritten = FALSE

Runs(r, statement) == handler[r].at = statement
Then(r, statement) == handler' = [handler EXCEPT ![r].at = statement]
Renting == {r \in SimpleRequests :
              handler[r].at \in {"gpu", "wallet", "insert", "rent", "lock"}}
\* Rentals whose request died after the INSERT and before its last statement.
Cut == {r \in rentals : handler[r].at = "dead"}

----------------------------------------------------------------------------
(* The handlers that only read.                                            *)

\* listGPUs; getGPU answers for any status.
ListGPUs == {g \in SimpleGPUs : gpuStatus[g] = "available"}
\* getWalletBalance.
WalletBalance(u) == purse[u]
\* listRentals (its LIMIT of 10 is not reached), which getUserStats counts.
ListRentals(u) == {r \in rentals : handler[r].user = u}

----------------------------------------------------------------------------
(* createWallet.                                                           *)

StartWallet(r) ==
  /\ Runs(r, "new")
  /\ \E u \in SimpleUsers :
       handler' = [handler EXCEPT ![r].at = "count", ![r].user = u]
  /\ UNCHANGED <<gpuStatus, purse, rentals, overlapped, unwritten>>

CountWallets(r) ==
  /\ Runs(r, "count")
  /\ \/ handler[r].user \notin DOMAIN purse /\ Then(r, "create")
     \/ Then(r, "done")
  /\ UNCHANGED <<gpuStatus, purse, rentals, overlapped, unwritten>>

\* Every wallet gets the same address, and addresses are UNIQUE: the INSERT
\* fails when there is a wallet, whoever it belongs to, and at other times.
InsertWallet(r) ==
  /\ Runs(r, "create")
  /\ \/ /\ DOMAIN purse = {}
        /\ purse' = [u \in {handler[r].user} |->
                       [available |-> InitialBalance, locked |-> 0]]
     \/ UNCHANGED purse
  /\ Then(r, "done")
  /\ UNCHANGED <<gpuStatus, rentals, overlapped, unwritten>>

----------------------------------------------------------------------------
(* createRental.                                                           *)

StartRental(r) ==
  /\ Runs(r, "new")
  /\ \E u \in SimpleUsers, g \in SimpleGPUs, e \in Escrows :
       handler' = [handler EXCEPT ![r] =
         [at |-> "gpu", user |-> u, gpu |-> g, escrow |-> e, read |-> 0]]
  /\ overlapped' = (overlapped \/ Renting # {})
  /\ UNCHANGED <<gpuStatus, purse, rentals, unwritten>>

\* A handler that does not look at the status it has read.
ReadGPUOnly(r) ==
  /\ Runs(r, "gpu")
  /\ Then(r, "wallet")
  /\ UNCHANGED <<gpuStatus, purse, rentals, overlapped, unwritten>>

\* A failed SELECT leaves the status empty, which is not available either.
ReadGPU(r) ==
  /\ Runs(r, "gpu")
  /\ \/ gpuStatus[handler[r].gpu] = "available" /\ Then(r, "wallet")
     \/ Then(r, "done")
  /\ UNCHANGED <<gpuStatus, purse, rentals, overlapped, unwritten>>

\* Only a missing row is an error: a SELECT that fails otherwise reads 0.
ReadWallet(r) ==
  LET user == handler[r].user
      pass(read) == handler' = [handler EXCEPT ![r].read = read,
                      ![r].at = IF read < handler[r].escrow THEN "done" ELSE "insert"]
  IN
  /\ Runs(r, "wallet")
  /\ \/ user \notin DOMAIN purse /\ Then(r, "done")
     \/ user \in DOMAIN purse /\ pass(WalletBalance(user).available)
     \/ pass(0)
  /\ UNCHANGED <<gpuStatus, purse, rentals, overlapped, unwritten>>

InsertRental(r) ==
  /\ Runs(r, "insert")
  /\ \/ rentals' = rentals \cup {r} /\ Then(r, "rent")
     \/ UNCHANGED rentals /\ Then(r, "done")
  /\ UNCHANGED <<gpuStatus, purse, overlapped, unwritten>>

UpdateGPU(r) ==
  /\ Runs(r, "rent")
  /\ \/ /\ gpuStatus' = [gpuStatus EXCEPT ![handler[r].gpu] = "rented"]
        /\ UNCHANGED unwritten
     \/ unwritten' = TRUE /\ UNCHANGED gpuStatus
  /\ Then(r, "lock")
  /\ UNCHANGED <<purse, rentals, overlapped>>

\* The funds written back from what was read, not counted from the row.
LockFundsRead(r) ==
  LET u == handler[r].user IN
  /\ Runs(r, "lock")
  /\ purse' = [v \in DOMAIN purse |-> IF v = u
       THEN [available |-> handler[r].read - handler[r].escrow,
             locked |-> InitialBalance - handler[r].read + handler[r].escrow]
       ELSE purse[v]]
  /\ Then(r, "done")
  /\ UNCHANGED <<gpuStatus, rentals, overlapped, unwritten>>

\* The UPDATE counts from the row as it is; without a row nothing changes,
\* and nobody looks at the number of rows.
LockFunds(r) ==
  LET u == handler[r].user  e == handler[r].escrow IN
  /\ Runs(r, "lock")
  /\ \/ /\ purse' = [v \in DOMAIN purse |-> IF v = u
             THEN [available |-> purse[v].available - e,
                   locked |-> purse[v].locked + e] ELSE purse[v]]
        /\ unwritten' = (unwritten \/ u \notin DOMAIN purse)
     \/ unwritten' = TRUE /\ UNCHANGED purse
  /\ Then(r, "done")
  /\ UNCHANGED <<gpuStatus, rentals, overlapped>>

----------------------------------------------------------------------------
\* The process dies with the requests it serves.  What they wrote stays, and
\* initDB, when it starts again, makes no table and no GPU that is there.
Crash ==
  /\ \E r \in SimpleRequests : handler[r].at \in Statements
  /\ handler' = [r \in SimpleRequests |->
       IF handler[r].at \in Statements THEN [handler[r] EXCEPT !.at = "dead"]
       ELSE handler[r]]
  /\ UNCHANGED <<gpuStatus, purse, rentals, overlapped, unwritten>>

SimpleNext ==
  \/ Crash
  \/ \E r \in SimpleRequests :
       \/ StartWallet(r) \/ CountWallets(r) \/ InsertWallet(r)
       \/ StartRental(r) \/ ReadGPU(r) \/ ReadWallet(r) \/ InsertRental(r)
       \/ UpdateGPU(r) \/ LockFunds(r)

----------------------------------------------------------------------------
\* The escrow_amount of the rows that a user's list shows, in all, but for
\* those that a crash has cut off.
Escrowed(u) == MapThenSumSet(LAMBDA r : handler[r].escrow, ListRentals(u) \ Cut)

\* Whatever the overlaps and crashes, the funds a user's wallet shows as
\* locked are the escrows of the rentals the gateway lists for that user,
\* once no rental of the user is being made and every UPDATE has written its
\* row.  A rental whose request died is listed and has locked nothing.
RentalsBacked ==
  \A u \in DOMAIN purse :
    /\ WalletBalance(u).available + WalletBalance(u).locked = InitialBalance
    /\ ~unwritten /\ (\A r \in Renting : handler[r].user # u) =>
         WalletBalance(u).locked = Escrowed(u)

\* A GPU has two rentals, or is offered while it has one, only after two
\* rental requests overlapped, an UPDATE wrote nothing, or the request of one
\* of these rentals died; and a wallet is overdrawn only after one of the
\* first two, not by a crash.
OverbookNeedsOverlap ==
  ~overlapped /\ ~unwritten =>
    /\ \A r \in rentals \ Cut, s \in rentals \ Cut :
         handler[r].gpu = handler[s].gpu => r = s
    /\ \A r \in rentals \ (Cut \cup Renting) : handler[r].gpu \notin ListGPUs
    /\ \A u \in DOMAIN purse : WalletBalance(u).available >= 0

\* Wallets, GPUs and rentals fit together as far as the handlers, which use
\* no transaction, can make them.
RentalsSound == RentalsBacked /\ OverbookNeedsOverlap
=============================================================================
