------------------------------ MODULE Billing -------------------------------
(***************************************************************************)
(* billing-payment-service: wallets, rental sessions and their payment.    *)
(*                                                                         *)
(* Every HTTP request runs in a goroutine of its own and talks to          *)
(* PostgreSQL through single statements: no handler opens a database       *)
(* transaction and no row is locked.  A handler reads a whole row into     *)
(* memory, computes, and later writes whole columns back.  In the model    *)
(* each call to the store, to Solana or to Covenant is one step, so other  *)
(* requests may run between a read and the write that depends on it.       *)
(*                                                                         *)
(* A request is named by a number; a rental session by the request that    *)
(* started it (StartRentalSession makes one fresh uuid).  pc[r] is the     *)
(* call request r makes next.                                              *)
(***************************************************************************)
EXTENDS Covenant

CONSTANTS Users,            \* owners of user wallets
          MaxRequests,      \* bound: requests the service receives
          Ops,              \* kinds of request the environment sends
          CovenantEnabled,  \* covenantMgr.Enabled()
          Amounts,          \* deposit and withdrawal amounts, of either sign
          Rates,            \* possible total hourly rates of a rental
          Costs,            \* possible metered costs of a session
          Powers,           \* power draws reported by usage updates
          MinimumBalance,   \* config.MinimumBalance
          WithdrawalLimit,  \* config.DailyWithdrawalLimit
          InitialBalance,   \* balance of a wallet when the model starts
          MaxChain          \* bound: tokens an account holds on the chain

Requests == 1 .. MaxRequests

Sessions == Requests

AllOps == {"create", "balance", "deposit", "withdraw",
           "start", "usage", "end", "dispute"}

(* store: a call of PostgreSQL or a read of the chain fails; chain: a sent *)
(* transaction is lost or its answer is; api: the Covenant API fails;      *)
(* crash: the process dies.                                                *)
AllFaults == {"store", "chain", "api", "crash"}

ASSUME BillingAssumption ==
  /\ Users # {}
  /\ MaxRequests \in Nat
  /\ Jobs = Sessions
  /\ Ops \subseteq AllOps
  /\ CovenantEnabled \in BOOLEAN
  /\ Faults \subseteq AllFaults
  /\ Amounts \subseteq Int
  /\ Rates \subseteq Nat \ {0}
  /\ Costs \subseteq Nat
  /\ Powers \subseteq Nat \ {0}
  /\ MinimumBalance \in Nat
  /\ WithdrawalLimit \in Nat
  /\ InitialBalance \in Nat
  /\ MaxChain \in Nat

VARIABLES
  wallets,   \* users that have a row in table wallets
  wallet,    \* table wallets: balance and locked_balance
  session,   \* table rental_sessions
  records,   \* table usage_records: number of rows of a session
  txn,       \* table transactions: status of the row request r inserted
  chain,     \* tokens of a user's account on the chain
  pc,        \* the call request r makes next
  arg,       \* the request's arguments
  lw,        \* the handler's copy of a wallet row
  ls,        \* the handler's copy of a session row
  applied,   \* history: requests that changed a balance
  moved,     \* history: withdrawals that landed on the chain
  due,       \* history: initial balance plus what the requests applied
  serial     \* history: no request has arrived while another one ran

rows  == <<wallets, wallet, session, records, txn>>
local == <<pc, arg, lw, ls>>
hist  == <<applied, moved, due, serial>>
vars  == <<rows, chain, local, hist, covenantVars>>

(* models.Wallet and models.RentalSession, the columns that matter.  A     *)
(* session's power is 0 while actual_power_w is NULL; ended_at is set      *)
(* exactly when a handler sets the status to completed.                    *)
WalletRow  == [balance : Int, locked : Nat]
SessionRow == [status : {"none", "active", "completed"}, user : Users,
               power : Nat, cost : Nat, pda : BOOLEAN]
Args       == [op : AllOps, user : Users, session : Sessions, amount : Int]

NoUser    == CHOOSE u \in Users : TRUE
EmptyRow  == [balance |-> 0, locked |-> 0]
NoSession == [status |-> "none", user |-> NoUser, power |-> 0, cost |-> 0,
              pda |-> FALSE]

Calls == {"CheckWallet", "CreateATA", "InsertWallet",
          "ReadBalance", "TokenBalance", "SyncBalance",
          "ConfirmDeposit", "ReadDeposit", "WriteDeposit", "DepositTxn",
          "DepositStatus",
          "ReadWithdraw", "WithdrawTxn", "Transfer", "WriteWithdraw",
          "WithdrawStatus", "WithdrawFailed",
          "ReadStart", "WriteLock", "OpenEscrow", "IndexEscrow",
          "InsertSession", "StartTxn",
          "ReadUsage", "InsertUsage", "WriteUsage",
          "ReadEnd", "WriteEnd", "SubmitEscrow", "IndexSubmit", "ReadPay",
          "WritePay", "EndTxn",
          "ReadDispute", "Dispute"}

(* The calls still to come that add the request's amount to a column.      *)
Metering == {"ReadStart", "ReadUsage", "InsertUsage", "ReadEnd"}

TablesOK ==
  /\ wallets \subseteq Users
  /\ wallet \in [Users -> WalletRow]
  /\ session \in [Sessions -> SessionRow]
  /\ records \in [Sessions -> Nat]
  /\ txn \in [Requests -> {"none", "pending", "confirmed", "failed"}]
  /\ chain \in [Users -> Nat]

HandlersOK ==
  /\ pc \in [Requests -> Calls \cup {"idle", "done"}]
  /\ arg \in [Requests -> Args]
  /\ lw \in [Requests -> WalletRow]
  /\ ls \in [Requests -> SessionRow]
  /\ \A r \in Requests : pc[r] \in Metering => arg[r].amount \in Nat

HistoryOK ==
  /\ applied \subseteq Requests
  /\ moved \subseteq Requests
  /\ due \in [Users -> Int]
  /\ serial \in BOOLEAN

(* The tables, the handlers' copies and the history keep their types.  A   *)
(* balance may be negative (see Solvent); a locked amount, a running cost  *)
(* and the sum of the usage records never are.                             *)
TypeOK == TablesOK /\ HandlersOK /\ HistoryOK /\ CovenantTypeOK

(* The model starts with nothing in flight; wallets that exist hold what   *)
(* their accounts hold on the chain.                                       *)
Init ==
  /\ wallets \in SUBSET Users
  /\ wallet = [u \in Users |->
                 IF u \in wallets
                 THEN [balance |-> InitialBalance, locked |-> 0]
                 ELSE EmptyRow]
  /\ session = [s \in Sessions |-> NoSession]
  /\ records = [s \in Sessions |-> 0]
  /\ txn = [r \in Requests |-> "none"]
  /\ chain = [u \in Users |-> wallet[u].balance]
  /\ pc = [r \in Requests |-> "idle"]
  /\ arg = [r \in Requests |-> [op |-> "balance", user |-> NoUser,
                                session |-> r, amount |-> 0]]
  /\ lw = [r \in Requests |-> EmptyRow]
  /\ ls = [r \in Requests |-> NoSession]
  /\ applied = {}
  /\ moved = {}
  /\ due = [u \in Users |-> wallet[u].balance]
  /\ serial = TRUE
  /\ CovenantInit
-----------------------------------------------------------------------------
(* models.Wallet: operations on a row that a handler holds in memory.      *)

AvailableBalance(w) == w.balance - w.locked

(* Mutant of CanSpend: what other sessions have locked is not subtracted.  *)
CanSpendTotal(w, a) == w.balance >= a

CanSpend(w, a) == AvailableBalance(w) >= a

LockFunds(w, a) == [w EXCEPT !.locked = @ + a]

UnlockFunds(w, a) == [w EXCEPT !.locked = IF a > @ THEN 0 ELSE @ - a]

(* Mutant of DeductFunds: the amount is not taken.                         *)
DeductNothing(w, a) == w

DeductFunds(w, a) == [w EXCEPT !.balance = @ - a]

AddFunds(w, a) == [w EXCEPT !.balance = @ + a]

(* PostgresStore: single-statement reads and writes.                       *)

UpdateWalletBalance(u, row) == wallet' = [wallet EXCEPT ![u] = row]

PutSession(s, row) == session' = [session EXCEPT ![s] = row]

PutTransaction(r, status) == txn' = [txn EXCEPT ![r] = status]

(* History: the balance of u was changed by amount a on behalf of r.       *)
Applied(r, u, a) ==
  /\ applied' = applied \cup {r}
  /\ due' = [due EXCEPT ![u] = @ + a]
  /\ UNCHANGED <<moved, serial>>
-----------------------------------------------------------------------------
(* Control of a handler: request r goes on to call c with copies w and s.  *)

Step(r, c, w, s) ==
  /\ pc' = [pc EXCEPT ![r] = c]
  /\ lw' = [lw EXCEPT ![r] = w]
  /\ ls' = [ls EXCEPT ![r] = s]
  /\ UNCHANGED arg

Goto(r, c) == Step(r, c, lw[r], ls[r])

Return(r) == Step(r, "done", EmptyRow, NoSession)

Running(r) == pc[r] \in Calls

User(r) == arg[r].user

Session(r) == arg[r].session

Amount(r) == arg[r].amount

(* A client sends a request.  Requests are numbered in order of arrival.   *)
Entry == [create |-> "CheckWallet", balance |-> "ReadBalance",
          deposit |-> "ConfirmDeposit", withdraw |-> "ReadWithdraw",
          start |-> "ReadStart", usage |-> "ReadUsage", end |-> "ReadEnd",
          dispute |-> "ReadDispute"]

Receive(r, o, u, s, a) ==
  /\ pc[r] = "idle"
  /\ \A q \in Requests : q < r => pc[q] # "idle"
  /\ pc' = [pc EXCEPT ![r] = Entry[o]]
  /\ arg' = [arg EXCEPT ![r] = [op |-> o, user |-> u, session |-> s,
                                amount |-> a]]
  /\ serial' = (serial /\ \A q \in Requests : ~Running(q))
  /\ UNCHANGED <<rows, chain, lw, ls, applied, moved, due, covenantVars>>

(* The arguments a client can send.  A session is named only once its row  *)
(* exists; `amount` is the amount of a deposit or withdrawal, the price of *)
(* a rental, the power of a usage update, the final cost of a session.     *)
(* The handlers decode a deposit or withdrawal and do not run the          *)
(* validation that its tags ask for, so its amount may have either sign.   *)
Arrive(r) ==
  \/ \E o \in Ops \cap {"create", "balance"}, u \in Users :
        Receive(r, o, u, r, 0)
  \/ \E o \in Ops \cap {"deposit", "withdraw"}, u \in Users, a \in Amounts :
        Receive(r, o, u, r, a)
  \/ \E o \in Ops \cap {"start"}, u \in Users, a \in Rates :
        Receive(r, o, u, r, a)
  \/ \E s \in {s \in Sessions : session[s].status # "none"} :
        \/ \E o \in Ops \cap {"usage"}, a \in Powers :
              Receive(r, o, session[s].user, s, a)
        \/ \E o \in Ops \cap {"end"}, a \in Costs :
              Receive(r, o, session[s].user, s, a)
        \/ \E o \in Ops \cap {"dispute"} :
              Receive(r, o, session[s].user, s, 0)
-----------------------------------------------------------------------------
(* BillingService.CreateWallet *)

CheckWallet(r) ==
  /\ pc[r] = "CheckWallet"
  /\ IF User(r) \in wallets THEN Return(r) ELSE Goto(r, "CreateATA")
  /\ UNCHANGED <<rows, chain, hist, covenantVars>>

CreateATA(r) ==
  /\ pc[r] = "CreateATA"
  /\ Goto(r, "InsertWallet")
  /\ UNCHANGED <<rows, chain, hist, covenantVars>>

(* UNIQUE(user_id, wallet_type): the loser of a race gets an error.        *)
InsertWallet(r) ==
  /\ pc[r] = "InsertWallet"
  /\ IF User(r) \in wallets
     THEN UNCHANGED <<wallets, wallet>>
     ELSE /\ wallets' = wallets \cup {User(r)}
          /\ UpdateWalletBalance(User(r), EmptyRow)
  /\ Return(r)
  /\ UNCHANGED <<session, records, txn, chain, hist, covenantVars>>

(* BillingService.GetWalletBalance: a read request that copies the balance *)
(* on the chain over the balance in the database.                          *)

ReadBalance(r) ==
  /\ pc[r] = "ReadBalance"
  /\ IF User(r) \in wallets
     THEN Step(r, "TokenBalance", wallet[User(r)], ls[r])
     ELSE Return(r)
  /\ UNCHANGED <<rows, chain, hist, covenantVars>>

TokenBalance(r) ==
  /\ pc[r] = "TokenBalance"
  /\ IF chain[User(r)] # lw[r].balance
     THEN Step(r, "SyncBalance", [lw[r] EXCEPT !.balance = chain[User(r)]],
               ls[r])
     ELSE Return(r)
  /\ UNCHANGED <<rows, chain, hist, covenantVars>>

SyncBalance(r) ==
  /\ pc[r] = "SyncBalance"
  /\ UpdateWalletBalance(User(r), lw[r])
  /\ Return(r)
  /\ UNCHANGED <<wallets, session, records, txn, chain, hist, covenantVars>>
-----------------------------------------------------------------------------
(* BillingService.ProcessDeposit: the wallet is written before the row of  *)
(* the transaction, whose CHECK (amount > 0) refuses other deposits only   *)
(* then.                                                                   *)

ConfirmDeposit(r) ==
  /\ pc[r] = "ConfirmDeposit"
  /\ Goto(r, "ReadDeposit")
  /\ UNCHANGED <<rows, chain, hist, covenantVars>>

ReadDeposit(r) ==
  /\ pc[r] = "ReadDeposit"
  /\ IF User(r) \in wallets
     THEN Step(r, "WriteDeposit", AddFunds(wallet[User(r)], Amount(r)), ls[r])
     ELSE Return(r)
  /\ UNCHANGED <<rows, chain, hist, covenantVars>>

WriteDeposit(r) ==
  /\ pc[r] = "WriteDeposit"
  /\ UpdateWalletBalance(User(r), lw[r])
  /\ Applied(r, User(r), Amount(r))
  /\ Goto(r, "DepositTxn")
  /\ UNCHANGED <<wallets, session, records, txn, chain, covenantVars>>

DepositTxn(r) ==
  /\ pc[r] = "DepositTxn"
  /\ IF Amount(r) > 0
     THEN PutTransaction(r, "pending") /\ Goto(r, "DepositStatus")
     ELSE UNCHANGED txn /\ Return(r)
  /\ UNCHANGED <<wallets, wallet, session, records, chain, hist, covenantVars>>

DepositStatus(r) ==
  /\ pc[r] = "DepositStatus"
  /\ PutTransaction(r, "confirmed")
  /\ Return(r)
  /\ UNCHANGED <<wallets, wallet, session, records, chain, hist, covenantVars>>

(* BillingService.ProcessWithdrawal *)

(* Mutant of ReadWithdraw: the transfer comes before the audit row.        *)
ReadWithdrawUnaudited(r) ==
  /\ pc[r] = "ReadWithdraw"
  /\ IF User(r) \in wallets /\ CanSpend(wallet[User(r)], Amount(r))
     THEN Step(r, "Transfer", wallet[User(r)], ls[r])
     ELSE Return(r)
  /\ UNCHANGED <<rows, chain, hist, covenantVars>>

ReadWithdraw(r) ==
  /\ pc[r] = "ReadWithdraw"
  /\ IF /\ User(r) \in wallets
        /\ CanSpend(wallet[User(r)], Amount(r))
        /\ Amount(r) <= WithdrawalLimit
     THEN Step(r, "WithdrawTxn", wallet[User(r)], ls[r])
     ELSE Return(r)
  /\ UNCHANGED <<rows, chain, hist, covenantVars>>

(* Here the row comes first: a withdrawal that is not positive ends.       *)
WithdrawTxn(r) ==
  /\ pc[r] = "WithdrawTxn"
  /\ IF Amount(r) > 0
     THEN PutTransaction(r, "pending") /\ Goto(r, "Transfer")
     ELSE UNCHANGED txn /\ Return(r)
  /\ UNCHANGED <<wallets, wallet, session, records, chain, hist, covenantVars>>

(* Client.TransferTokens: an account that does not hold the amount is      *)
(* refused by the simulation.                                              *)
Transfer(r) ==
  /\ pc[r] = "Transfer"
  /\ \E landed, reported \in BOOLEAN :
        /\ Send(chain[User(r)] >= Amount(r), landed, reported)
        /\ IF landed
           THEN /\ chain' = [chain EXCEPT ![User(r)] = @ - Amount(r)]
                /\ moved' = moved \cup {r}
           ELSE UNCHANGED <<chain, moved>>
        /\ IF ~reported
           THEN Goto(r, "WithdrawFailed")
           ELSE IF lw[r].balance < Amount(r)
           THEN Return(r)
           ELSE Step(r, "WriteWithdraw", DeductFunds(lw[r], Amount(r)), ls[r])
  /\ UNCHANGED <<rows, applied, due, serial, covenantVars>>

WithdrawFailed(r) ==
  /\ pc[r] = "WithdrawFailed"
  /\ PutTransaction(r, "failed")
  /\ Return(r)
  /\ UNCHANGED <<wallets, wallet, session, records, chain, hist, covenantVars>>

WriteWithdraw(r) ==
  /\ pc[r] = "WriteWithdraw"
  /\ UpdateWalletBalance(User(r), lw[r])
  /\ Applied(r, User(r), 0 - Amount(r))
  /\ Goto(r, "WithdrawStatus")
  /\ UNCHANGED <<wallets, session, records, txn, chain, covenantVars>>

WithdrawStatus(r) ==
  /\ pc[r] = "WithdrawStatus"
  /\ PutTransaction(r, "confirmed")
  /\ Return(r)
  /\ UNCHANGED <<wallets, wallet, session, records, chain, hist, covenantVars>>
-----------------------------------------------------------------------------
(* BillingService.StartRentalSession: the session is named r.              *)

ReadStart(r) ==
  /\ pc[r] = "ReadStart"
  /\ LET w == wallet[User(r)]
     IN IF /\ User(r) \in wallets
           /\ AvailableBalance(w) >= MinimumBalance
           /\ CanSpend(w, Amount(r))
        THEN Step(r, "WriteLock", LockFunds(w, Amount(r)),
                  [status |-> "active", user |-> User(r), power |-> 0,
                   cost |-> 0, pda |-> FALSE])
        ELSE Return(r)
  /\ UNCHANGED <<rows, chain, hist, covenantVars>>

WriteLock(r) ==
  /\ pc[r] = "WriteLock"
  /\ UpdateWalletBalance(User(r), lw[r])
  /\ Goto(r, IF CovenantEnabled THEN "OpenEscrow" ELSE "InsertSession")
  /\ UNCHANGED <<wallets, session, records, txn, chain, hist, covenantVars>>

(* Manager.OpenRentalJob: create on the chain, then index.  When indexing  *)
(* fails OpenRentalJob returns the job and the error; StartRentalSession   *)
(* returns on the error, so the job's address is dropped.                  *)
OpenEscrow(r) ==
  /\ pc[r] = "OpenEscrow"
  /\ \E landed, reported \in BOOLEAN :
        /\ CreateJob(r, landed, reported)
        /\ IF reported THEN Goto(r, "IndexEscrow") ELSE Return(r)
  /\ UNCHANGED <<rows, chain, hist, index>>

(* Mutant of IndexEscrow: the error of the index is ignored.               *)
IndexEscrowIgnored(r) ==
  /\ pc[r] = "IndexEscrow"
  /\ \E recorded, reported \in BOOLEAN :
        IndexPost(r, "accepted", recorded, reported)
  /\ Step(r, "InsertSession", lw[r], [ls[r] EXCEPT !.pda = TRUE])
  /\ UNCHANGED <<rows, chain, hist, job>>

IndexEscrow(r) ==
  /\ pc[r] = "IndexEscrow"
  /\ \E recorded, reported \in BOOLEAN :
        /\ IndexPost(r, "accepted", recorded, reported)
        /\ IF reported
           THEN Step(r, "InsertSession", lw[r], [ls[r] EXCEPT !.pda = TRUE])
           ELSE Return(r)
  /\ UNCHANGED <<rows, chain, hist, job>>

InsertSession(r) ==
  /\ pc[r] = "InsertSession"
  /\ PutSession(r, ls[r])
  /\ Goto(r, "StartTxn")
  /\ UNCHANGED <<wallets, wallet, records, txn, chain, hist, covenantVars>>

StartTxn(r) ==
  /\ pc[r] = "StartTxn"
  /\ PutTransaction(r, "pending")
  /\ Return(r)
  /\ UNCHANGED <<wallets, wallet, session, records, chain, hist, covenantVars>>

(* BillingService.ProcessUsageUpdate: the status of the session is not     *)
(* looked at, and the whole row read is written back.  The cost of a       *)
(* period is a fixed function of the power; the model uses the power.      *)

ReadUsage(r) ==
  /\ pc[r] = "ReadUsage"
  /\ Step(r, "InsertUsage", lw[r], session[Session(r)])
  /\ UNCHANGED <<rows, chain, hist, covenantVars>>

(* Mutant of Metered: a reading starts its session afresh.                 *)
MeteredActive(row, p) == [row EXCEPT !.status = "active", !.power = p, !.cost = p]

Metered(row, p) == [row EXCEPT !.power = p, !.cost = row.cost + p]

(* Mutant of InsertUsage: a reading with a new power is not recorded.      *)
InsertUsageUnrecorded(r) ==
  /\ pc[r] = "InsertUsage"
  /\ IF ls[r].power # Amount(r)
     THEN Step(r, "WriteUsage", lw[r], Metered(ls[r], Amount(r)))
     ELSE Return(r)
  /\ UNCHANGED <<rows, chain, hist, covenantVars>>

InsertUsage(r) ==
  /\ pc[r] = "InsertUsage"
  /\ records' = [records EXCEPT ![Session(r)] = @ + Amount(r)]
  /\ IF ls[r].power # Amount(r)
     THEN Step(r, "WriteUsage", lw[r], Metered(ls[r], Amount(r)))
     ELSE Return(r)
  /\ UNCHANGED <<wallets, wallet, session, txn, chain, hist, covenantVars>>

WriteUsage(r) ==
  /\ pc[r] = "WriteUsage"
  /\ PutSession(Session(r), ls[r])
  /\ Return(r)
  /\ UNCHANGED <<wallets, wallet, records, txn, chain, hist, covenantVars>>

(* BillingService.EndRentalSession *)

(* Mutants of ReadEnd: the status is not looked at; the work is submitted  *)
(* before the session is written.                                          *)
ReadEndAgain(r) ==
  /\ pc[r] = "ReadEnd"
  /\ Step(r, "WriteEnd", lw[r],
          [session[Session(r)] EXCEPT !.status = "completed",
                                      !.cost = Amount(r)])
  /\ UNCHANGED <<rows, chain, hist, covenantVars>>

ReadEndUnwritten(r) ==
  /\ pc[r] = "ReadEnd"
  /\ Goto(r, "SubmitEscrow")
  /\ UNCHANGED <<rows, chain, hist, covenantVars>>

ReadEnd(r) ==
  /\ pc[r] = "ReadEnd"
  /\ IF session[Session(r)].status = "active"
     THEN Step(r, "WriteEnd", lw[r],
               [session[Session(r)] EXCEPT !.status = "completed",
                                           !.cost = Amount(r)])
     ELSE Return(r)
  /\ UNCHANGED <<rows, chain, hist, covenantVars>>

WriteEnd(r) ==
  /\ pc[r] = "WriteEnd"
  /\ PutSession(Session(r), ls[r])
  /\ Goto(r, IF CovenantEnabled /\ ls[r].pda THEN "SubmitEscrow" ELSE "ReadPay")
  /\ UNCHANGED <<wallets, wallet, records, txn, chain, hist, covenantVars>>

(* Manager.CloseRentalJob: an error is logged and the session stays ended; *)
(* the answer of the API is ignored.                                       *)
SubmitEscrow(r) ==
  /\ pc[r] = "SubmitEscrow"
  /\ \E landed, reported \in BOOLEAN :
        /\ SubmitWork(Session(r), landed, reported)
        /\ Goto(r, IF reported THEN "IndexSubmit" ELSE "ReadPay")
  /\ UNCHANGED <<rows, chain, hist, index>>

IndexSubmit(r) ==
  /\ pc[r] = "IndexSubmit"
  /\ \E recorded \in BOOLEAN :
        IndexPost(Session(r), "delivered", recorded, recorded)
  /\ Goto(r, "ReadPay")
  /\ UNCHANGED <<rows, chain, hist, job>>

(* Mutant of ReadPay: the cost is deducted whatever the balance.           *)
ReadPayUnchecked(r) ==
  /\ pc[r] = "ReadPay"
  /\ LET w == wallet[User(r)]
     IN Step(r, "WritePay", DeductFunds(UnlockFunds(w, w.locked), Amount(r)),
             ls[r])
  /\ UNCHANGED <<rows, chain, hist, covenantVars>>

(* Everything that is locked is unlocked, then the cost is deducted.       *)
ReadPay(r) ==
  /\ pc[r] = "ReadPay"
  /\ LET w == wallet[User(r)]
     IN IF User(r) \in wallets /\ w.balance >= Amount(r)
        THEN Step(r, "WritePay",
                  DeductFunds(UnlockFunds(w, w.locked), Amount(r)), ls[r])
        ELSE Return(r)
  /\ UNCHANGED <<rows, chain, hist, covenantVars>>

WritePay(r) ==
  /\ pc[r] = "WritePay"
  /\ UpdateWalletBalance(User(r), lw[r])
  /\ Applied(r, User(r), 0 - Amount(r))
  /\ Goto(r, "EndTxn")
  /\ UNCHANGED <<wallets, session, records, txn, chain, covenantVars>>

(* CHECK (amount > 0): the row of a session without cost is refused.       *)
EndTxn(r) ==
  /\ pc[r] = "EndTxn"
  /\ IF Amount(r) > 0 THEN PutTransaction(r, "pending") ELSE UNCHANGED txn
  /\ Return(r)
  /\ UNCHANGED <<wallets, wallet, session, records, chain, hist, covenantVars>>

(* BillingService.DisputeSession *)

ReadDispute(r) ==
  /\ pc[r] = "ReadDispute"
  /\ IF CovenantEnabled /\ session[Session(r)].pda
     THEN Goto(r, "Dispute")
     ELSE Return(r)
  /\ UNCHANGED <<rows, chain, hist, covenantVars>>

Dispute(r) ==
  /\ pc[r] = "Dispute"
  /\ \E landed, reported \in BOOLEAN :
        RaiseDispute(Session(r), landed, reported)
  /\ Return(r)
  /\ UNCHANGED <<rows, chain, hist, index>>
-----------------------------------------------------------------------------
(* A call of the store or of Solana returns an error without an effect and *)
(* the handler returns.  (The calls left out handle their error otherwise  *)
(* and have it in their own action; a call that takes effect and still     *)
(* reports an error is the call followed by a failure of the next one.)    *)
FailingCalls == Calls \ {"Transfer", "OpenEscrow", "IndexEscrow",
                         "SubmitEscrow", "IndexSubmit", "Dispute"}

Fail(r) ==
  /\ "store" \in Faults
  /\ pc[r] \in FailingCalls
  /\ Return(r)
  /\ UNCHANGED <<rows, chain, hist, covenantVars>>

(* The process dies; what is in the database and on the chain stays, and   *)
(* nothing resumes the requests that were running.                         *)
Crash ==
  /\ "crash" \in Faults
  /\ \E r \in Requests : Running(r)
  /\ pc' = [r \in Requests |-> IF Running(r) THEN "done" ELSE pc[r]]
  /\ lw' = [r \in Requests |-> EmptyRow]
  /\ ls' = [r \in Requests |-> NoSession]
  /\ UNCHANGED <<rows, chain, arg, hist, covenantVars>>

(* A renter sends tokens to the account of the wallet, outside the service. *)
ChainDeposit(u) ==
  /\ \E a \in Amounts :
        /\ a > 0 /\ chain[u] + a <= MaxChain
        /\ chain' = [chain EXCEPT ![u] = @ + a]
  /\ UNCHANGED <<rows, local, hist, covenantVars>>

(* The bound on requests is reached and every handler has returned.        *)
Quiet ==
  /\ \A r \in Requests : pc[r] = "done"
  /\ UNCHANGED vars

Handler(r) ==
  \/ CheckWallet(r) \/ CreateATA(r) \/ InsertWallet(r)
  \/ ReadBalance(r) \/ TokenBalance(r) \/ SyncBalance(r)
  \/ ConfirmDeposit(r) \/ ReadDeposit(r) \/ WriteDeposit(r)
  \/ DepositTxn(r) \/ DepositStatus(r)
  \/ ReadWithdraw(r) \/ WithdrawTxn(r) \/ Transfer(r)
  \/ WithdrawFailed(r) \/ WriteWithdraw(r) \/ WithdrawStatus(r)
  \/ ReadStart(r) \/ WriteLock(r) \/ OpenEscrow(r) \/ IndexEscrow(r)
  \/ InsertSession(r) \/ StartTxn(r)
  \/ ReadUsage(r) \/ InsertUsage(r) \/ WriteUsage(r)
  \/ ReadEnd(r) \/ WriteEnd(r) \/ SubmitEscrow(r) \/ IndexSubmit(r)
  \/ ReadPay(r) \/ WritePay(r) \/ EndTxn(r)
  \/ ReadDispute(r) \/ Dispute(r)

Next ==
  \/ \E r \in Requests : Arrive(r) \/ Handler(r) \/ Fail(r)
  \/ Crash
  \/ \E u \in Users : ChainDeposit(u)
  \/ Quiet

Spec == Init /\ [][Next]_vars
-----------------------------------------------------------------------------
(* No request of kind o has arrived.  GetWalletBalance (balance) is the    *)
(* one operation that copies the chain's balance over the stored one, and  *)
(* ProcessUsageUpdate (usage) the one that writes back an old copy of a    *)
(* session.                                                                *)
Never(o) == \A r \in Requests : pc[r] # "idle" => arg[r].op # o

(* A deposit of a negative amount was put on the wallet of u.              *)
Debited(u) ==
  \E r \in applied : arg[r].op = "deposit" /\ User(r) = u /\ Amount(r) < 0

(* Only a negative deposit brings a balance below zero: whatever rows the  *)
(* withdrawals, charges and starts decided on and however old these are    *)
(* when they write, they never take more than the row they write had, and  *)
(* neither failures nor crashes change that.                               *)
Solvent == \A u \in Users : wallet[u].balance < 0 => Debited(u)

(* A wallet never has more locked than it holds (the constraint            *)
(* locked_not_exceeds_balance of the migrations, which the service's own   *)
(* schema does not have), unless a negative deposit was put on it.  Every  *)
(* handler but that one and GetWalletBalance keeps it, however requests    *)
(* interleave, fail or are cut off: each writes both columns of one row it *)
(* read, changed by an operation that kept it.                             *)
LockCovered ==
  Never("balance") =>
    \A u \in Users : wallet[u].locked <= wallet[u].balance \/ Debited(u)

(* README.md of the repository: "Renter-side balance accounting is         *)
(* correct".  No update of a balance is lost or applied twice: a balance   *)
(* is the initial one plus the deposits, minus the withdrawals and session *)
(* charges that handlers have written.                                     *)
AccountingCorrect == \A u \in Users : wallet[u].balance = due[u]

(* The accounting is correct as long as requests did not overlap and the   *)
(* chain was not copied, wherever calls fail and the process dies.         *)
Accounted == serial /\ Never("balance") => AccountingCorrect

(* No session row exists whose escrow does not: StartRentalSession inserts *)
(* the row only after the Covenant API has verified the escrow, so neither *)
(* a transaction dropped after it was sent nor a crash leaves a session    *)
(* that cannot be settled.                                                 *)
EscrowBehindSession ==
  CovenantEnabled =>
    \A s \in Sessions :
      session[s].status # "none" => session[s].pda /\ job[s] # "none"

(* The work of a session is submitted to the escrow, which starts the      *)
(* challenge window, only once the session has been ended, also when       *)
(* starts, ends and disputes overlap and fail.  (A usage update that       *)
(* overlaps the end revives the session.)                                  *)
DeliveredWasEnded ==
  serial \/ Never("usage") =>
    \A s \in Sessions :
      job[s] \in {"delivered", "disputed"} => session[s].status = "completed"

(* The running cost of an active session never exceeds the cost of its     *)
(* usage records: a reading is recorded before it is charged, also when    *)
(* several readings of one session are processed at once.                  *)
CostMetered ==
  \A s \in Sessions :
    session[s].status = "active" => session[s].cost <= records[s]

(* Tokens leave the chain account only for a withdrawal that has a         *)
(* transaction row, and a row is confirmed only after the balance of the   *)
(* wallet was changed.                                                     *)
PaymentsAudited ==
  /\ \A r \in moved : txn[r] # "none"
  /\ \A r \in Requests : txn[r] = "confirmed" => r \in applied

(* What the tables of one session, its escrow and the wallet's log say     *)
(* fits together in every interleaving, failure and crash.                 *)
RecordsAgree == CostMetered /\ PaymentsAudited /\ DeliveredWasEnded

(* A session is charged at most once, as long as requests did not overlap: *)
(* no failure or crash in the middle of EndRentalSession, and no usage     *)
(* update after it, lets a repeated request charge again.                  *)
ChargedOnce ==
  serial =>
    \A q, r \in applied :
      /\ arg[q].op = "end" /\ arg[r].op = "end"
      /\ Session(q) = Session(r)
      => q = r

(* A session that was ended stays ended: it is not revived by usage        *)
(* updates that arrive later, and by no overlap of other requests.         *)
EndedStaysEnded ==
  [][serial \/ Never("usage") =>
       \A s \in Sessions : session[s].status = "completed" =>
                             session'[s].status = "completed"]_session
=============================================================================
