--------------------------- MODULE BillingProofs ----------------------------
(***************************************************************************)
(* Theorems about Billing, for every set of users, every number of         *)
(* requests and every choice of amounts, and about Settlement.             *)
(***************************************************************************)
EXTENDS Billing, Settlement, TLAPS

-----------------------------------------------------------------------------
(* The rows of models.Wallet and what its operations return.               *)

LEMMA EmptyRows ==
  /\ NoUser \in Users
  /\ EmptyRow \in WalletRow
  /\ NoSession \in SessionRow
BY BillingAssumption DEF NoUser, EmptyRow, NoSession, WalletRow, SessionRow

LEMMA WalletOperations ==
  ASSUME NEW w \in WalletRow, NEW a \in Int
  PROVE  /\ AddFunds(w, a) \in WalletRow
         /\ a \in Nat => LockFunds(w, a) \in WalletRow
         /\ UnlockFunds(w, w.locked) \in WalletRow
         /\ UnlockFunds(w, w.locked).balance = w.balance
         /\ DeductFunds(w, a) \in WalletRow
BY DEF AddFunds, LockFunds, UnlockFunds, DeductFunds, WalletRow

LEMMA MeteredType ==
  ASSUME NEW row \in SessionRow, NEW p \in Nat
  PROVE  Metered(row, p) \in SessionRow
<1>1. row.cost + p \in Nat
  BY DEF SessionRow
<1>2. ASSUME NEW c \in Nat PROVE [row EXCEPT !.power = p, !.cost = c] \in
      SessionRow
  BY DEF SessionRow
<1> QED
  BY <1>1, <1>2 DEF Metered

LEMMA ArgTypes ==
  ASSUME HandlersOK, NEW r \in Requests
  PROVE  /\ User(r) \in Users /\ Session(r) \in Sessions /\ Amount(r) \in Int
         /\ pc[r] \in Metering => Amount(r) \in Nat
BY DEF HandlersOK, Args, User, Session, Amount

(* The three ways a handler moves on keep the handlers' types.             *)
LEMMA StepType ==
  ASSUME HandlersOK, NEW r \in Requests, NEW c \in Calls \cup {"idle", "done"},
         NEW w \in WalletRow, NEW s \in SessionRow, Step(r, c, w, s),
         c \in Metering => pc[r] \in Metering
  PROVE  HandlersOK'
BY DEF HandlersOK, Step

LEMMA GotoType ==
  ASSUME HandlersOK, NEW r \in Requests, NEW c \in Calls \ Metering, Goto(r, c)
  PROVE  HandlersOK'
BY StepType DEF HandlersOK, Goto

LEMMA ReturnType ==
  ASSUME HandlersOK, NEW r \in Requests, Return(r)
  PROVE  HandlersOK'
BY StepType, EmptyRows DEF Return, Metering

LEMMA CovenantTypes ==
  ASSUME CovenantTypeOK, NEW j \in Jobs, NEW landed \in BOOLEAN, NEW reported
        \in BOOLEAN,
         UNCHANGED index,
         \/ CreateJob(j, landed, reported)
         \/ SubmitWork(j, landed, reported)
         \/ RaiseDispute(j, landed, reported)
  PROVE  CovenantTypeOK'
BY DEF CovenantTypeOK, CreateJob, SubmitWork, RaiseDispute, SignAndSend,
     JobStatus

LEMMA IndexTypes ==
  ASSUME CovenantTypeOK, NEW j \in Jobs, NEW st \in JobStatus,
         NEW recorded \in BOOLEAN, NEW reported \in BOOLEAN,
         UNCHANGED job, IndexPost(j, st, recorded, reported)
  PROVE  CovenantTypeOK'
BY DEF CovenantTypeOK, IndexPost

LEMMA TypeStep == TypeOK /\ [Next]_vars => TypeOK'
<1> SUFFICES ASSUME TypeOK, [Next]_vars PROVE TypeOK'
  OBVIOUS
<1> USE DEF TypeOK
<1>1. ASSUME NEW r \in Requests, CheckWallet(r) PROVE TypeOK'
  <2>1. HandlersOK'
    BY <1>1, GotoType, ReturnType DEF CheckWallet, Calls, Metering
  <2>2. TablesOK'
    BY <1>1 DEF CheckWallet, TablesOK, rows
  <2>3. HistoryOK' /\ CovenantTypeOK'
    BY <1>1 DEF CheckWallet, HistoryOK, CovenantTypeOK, hist, covenantVars
  <2> QED BY <2>1, <2>2, <2>3
<1>2. ASSUME NEW r \in Requests, CreateATA(r) PROVE TypeOK'
  <2>1. HandlersOK'
    BY <1>2, GotoType DEF CreateATA, Calls, Metering
  <2>2. TablesOK'
    BY <1>2 DEF CreateATA, TablesOK, rows
  <2>3. HistoryOK' /\ CovenantTypeOK'
    BY <1>2 DEF CreateATA, HistoryOK, CovenantTypeOK, hist, covenantVars
  <2> QED BY <2>1, <2>2, <2>3
<1>3. ASSUME NEW r \in Requests, InsertWallet(r) PROVE TypeOK'
  <2>1. HandlersOK'
    BY <1>3, ReturnType DEF InsertWallet, Calls, Metering
  <2>2. TablesOK'
    BY <1>3, EmptyRows, ArgTypes DEF InsertWallet, TablesOK, rows,
         UpdateWalletBalance
  <2>3. HistoryOK' /\ CovenantTypeOK'
    BY <1>3 DEF InsertWallet, HistoryOK, CovenantTypeOK, hist, covenantVars
  <2> QED BY <2>1, <2>2, <2>3
<1>4. ASSUME NEW r \in Requests, ReadBalance(r) PROVE TypeOK'
  <2>1. HandlersOK'
    BY <1>4, StepType, ReturnType, ArgTypes DEF ReadBalance, Calls, Metering,
         TablesOK, HandlersOK
  <2>2. TablesOK'
    BY <1>4 DEF ReadBalance, TablesOK, rows
  <2>3. HistoryOK' /\ CovenantTypeOK'
    BY <1>4 DEF ReadBalance, HistoryOK, CovenantTypeOK, hist, covenantVars
  <2> QED BY <2>1, <2>2, <2>3
<1>5. ASSUME NEW r \in Requests, TokenBalance(r) PROVE TypeOK'
  <2>1. HandlersOK'
    <3>1. CASE Return(r)
      BY <3>1, ReturnType
    <3>2. CASE Step(r, "SyncBalance",
                    [lw[r] EXCEPT !.balance = chain[User(r)]], ls[r])
      <4>1. /\ chain[User(r)] \in Nat
            /\ lw[r] \in WalletRow /\ ls[r] \in SessionRow
        BY ArgTypes DEF TablesOK, HandlersOK
      <4>2. [lw[r] EXCEPT !.balance = chain[User(r)]] \in WalletRow
        BY <4>1 DEF WalletRow
      <4> QED
        BY <3>2, <4>1, <4>2, StepType DEF Calls, Metering
    <3> QED
      BY <1>5, <3>1, <3>2 DEF TokenBalance
  <2>2. TablesOK'
    BY <1>5 DEF TokenBalance, TablesOK, rows
  <2>3. HistoryOK' /\ CovenantTypeOK'
    BY <1>5 DEF TokenBalance, HistoryOK, CovenantTypeOK, hist, covenantVars
  <2> QED BY <2>1, <2>2, <2>3
<1>6. ASSUME NEW r \in Requests, SyncBalance(r) PROVE TypeOK'
  <2>1. HandlersOK'
    BY <1>6, ReturnType DEF SyncBalance, Calls, Metering
  <2>2. TablesOK'
    BY <1>6, ArgTypes DEF SyncBalance, TablesOK, rows, UpdateWalletBalance,
         HandlersOK
  <2>3. HistoryOK' /\ CovenantTypeOK'
    BY <1>6 DEF SyncBalance, HistoryOK, CovenantTypeOK, hist, covenantVars
  <2> QED BY <2>1, <2>2, <2>3
<1>7. ASSUME NEW r \in Requests, ConfirmDeposit(r) PROVE TypeOK'
  <2>1. HandlersOK'
    BY <1>7, GotoType DEF ConfirmDeposit, Calls, Metering
  <2>2. TablesOK'
    BY <1>7 DEF ConfirmDeposit, TablesOK, rows
  <2>3. HistoryOK' /\ CovenantTypeOK'
    BY <1>7 DEF ConfirmDeposit, HistoryOK, CovenantTypeOK, hist, covenantVars
  <2> QED BY <2>1, <2>2, <2>3
<1>8. ASSUME NEW r \in Requests, ReadDeposit(r) PROVE TypeOK'
  <2>1. HandlersOK'
    BY <1>8, ReturnType, StepType, WalletOperations, ArgTypes DEF ReadDeposit,
         Calls, Metering, TablesOK, HandlersOK
  <2>2. TablesOK'
    BY <1>8 DEF ReadDeposit, TablesOK, rows
  <2>3. HistoryOK' /\ CovenantTypeOK'
    BY <1>8 DEF ReadDeposit, HistoryOK, CovenantTypeOK, hist, covenantVars
  <2> QED BY <2>1, <2>2, <2>3
<1>9. ASSUME NEW r \in Requests, WriteDeposit(r) PROVE TypeOK'
  <2>1. HandlersOK'
    BY <1>9, GotoType DEF WriteDeposit, Calls, Metering
  <2>2. TablesOK'
    BY <1>9, ArgTypes DEF WriteDeposit, TablesOK, rows, UpdateWalletBalance,
         HandlersOK
  <2>3. HistoryOK' /\ CovenantTypeOK'
    BY <1>9, ArgTypes DEF WriteDeposit, HistoryOK, CovenantTypeOK, hist,
         covenantVars, Applied
  <2> QED BY <2>1, <2>2, <2>3
<1>10. ASSUME NEW r \in Requests, WriteWithdraw(r) PROVE TypeOK'
  <2>1. HandlersOK'
    BY <1>10, GotoType DEF WriteWithdraw, Calls, Metering
  <2>2. TablesOK'
    BY <1>10, ArgTypes DEF WriteWithdraw, TablesOK, rows, UpdateWalletBalance,
         HandlersOK
  <2>3. HistoryOK' /\ CovenantTypeOK'
    BY <1>10, ArgTypes DEF WriteWithdraw, HistoryOK, CovenantTypeOK, hist,
         covenantVars, Applied
  <2> QED BY <2>1, <2>2, <2>3
<1>11. ASSUME NEW r \in Requests, WritePay(r) PROVE TypeOK'
  <2>1. HandlersOK'
    BY <1>11, GotoType DEF WritePay, Calls, Metering
  <2>2. TablesOK'
    BY <1>11, ArgTypes DEF WritePay, TablesOK, rows, UpdateWalletBalance,
         HandlersOK
  <2>3. HistoryOK' /\ CovenantTypeOK'
    BY <1>11, ArgTypes DEF WritePay, HistoryOK, CovenantTypeOK, hist,
         covenantVars, Applied
  <2> QED BY <2>1, <2>2, <2>3
<1>12. ASSUME NEW r \in Requests, DepositTxn(r) PROVE TypeOK'
  <2>1. HandlersOK'
    BY <1>12, GotoType, ReturnType DEF DepositTxn, Calls, Metering
  <2>2. TablesOK'
    BY <1>12 DEF DepositTxn, TablesOK, rows, PutTransaction
  <2>3. HistoryOK' /\ CovenantTypeOK'
    BY <1>12 DEF DepositTxn, HistoryOK, CovenantTypeOK, hist, covenantVars
  <2> QED BY <2>1, <2>2, <2>3
<1>13. ASSUME NEW r \in Requests, DepositStatus(r) PROVE TypeOK'
  <2>1. HandlersOK'
    BY <1>13, ReturnType DEF DepositStatus, Calls, Metering
  <2>2. TablesOK'
    BY <1>13 DEF DepositStatus, TablesOK, rows, PutTransaction
  <2>3. HistoryOK' /\ CovenantTypeOK'
    BY <1>13 DEF DepositStatus, HistoryOK, CovenantTypeOK, hist, covenantVars
  <2> QED BY <2>1, <2>2, <2>3
<1>14. ASSUME NEW r \in Requests, WithdrawTxn(r) PROVE TypeOK'
  <2>1. HandlersOK'
    BY <1>14, GotoType, ReturnType DEF WithdrawTxn, Calls, Metering
  <2>2. TablesOK'
    BY <1>14 DEF WithdrawTxn, TablesOK, rows, PutTransaction
  <2>3. HistoryOK' /\ CovenantTypeOK'
    BY <1>14 DEF WithdrawTxn, HistoryOK, CovenantTypeOK, hist, covenantVars
  <2> QED BY <2>1, <2>2, <2>3
<1>15. ASSUME NEW r \in Requests, WithdrawFailed(r) PROVE TypeOK'
  <2>1. HandlersOK'
    BY <1>15, ReturnType DEF WithdrawFailed, Calls, Metering
  <2>2. TablesOK'
    BY <1>15 DEF WithdrawFailed, TablesOK, rows, PutTransaction
  <2>3. HistoryOK' /\ CovenantTypeOK'
    BY <1>15 DEF WithdrawFailed, HistoryOK, CovenantTypeOK, hist, covenantVars
  <2> QED BY <2>1, <2>2, <2>3
<1>16. ASSUME NEW r \in Requests, WithdrawStatus(r) PROVE TypeOK'
  <2>1. HandlersOK'
    BY <1>16, ReturnType DEF WithdrawStatus, Calls, Metering
  <2>2. TablesOK'
    BY <1>16 DEF WithdrawStatus, TablesOK, rows, PutTransaction
  <2>3. HistoryOK' /\ CovenantTypeOK'
    BY <1>16 DEF WithdrawStatus, HistoryOK, CovenantTypeOK, hist, covenantVars
  <2> QED BY <2>1, <2>2, <2>3
<1>17. ASSUME NEW r \in Requests, StartTxn(r) PROVE TypeOK'
  <2>1. HandlersOK'
    BY <1>17, ReturnType DEF StartTxn, Calls, Metering
  <2>2. TablesOK'
    BY <1>17 DEF StartTxn, TablesOK, rows, PutTransaction
  <2>3. HistoryOK' /\ CovenantTypeOK'
    BY <1>17 DEF StartTxn, HistoryOK, CovenantTypeOK, hist, covenantVars
  <2> QED BY <2>1, <2>2, <2>3
<1>18. ASSUME NEW r \in Requests, EndTxn(r) PROVE TypeOK'
  <2>1. HandlersOK'
    BY <1>18, ReturnType DEF EndTxn, Calls, Metering
  <2>2. TablesOK'
    BY <1>18 DEF EndTxn, TablesOK, rows, PutTransaction
  <2>3. HistoryOK' /\ CovenantTypeOK'
    BY <1>18 DEF EndTxn, HistoryOK, CovenantTypeOK, hist, covenantVars
  <2> QED BY <2>1, <2>2, <2>3
<1>19. ASSUME NEW r \in Requests, ReadWithdraw(r) PROVE TypeOK'
  <2>1. HandlersOK'
    BY <1>19, ReturnType, StepType, ArgTypes DEF ReadWithdraw, Calls, Metering,
         TablesOK, HandlersOK
  <2>2. TablesOK'
    BY <1>19 DEF ReadWithdraw, TablesOK, rows
  <2>3. HistoryOK' /\ CovenantTypeOK'
    BY <1>19 DEF ReadWithdraw, HistoryOK, CovenantTypeOK, hist, covenantVars
  <2> QED BY <2>1, <2>2, <2>3
<1>20. ASSUME NEW r \in Requests, Transfer(r) PROVE TypeOK'
  <2>1. lw[r] \in WalletRow /\ ls[r] \in SessionRow /\ lw[r].balance \in Int
    BY DEF HandlersOK, WalletRow
  <2>2. DeductFunds(lw[r], Amount(r)) \in WalletRow
    BY <2>1, WalletOperations, ArgTypes
  <2>3. HandlersOK'
    <3>1. CASE Goto(r, "WithdrawFailed")
      BY <3>1, GotoType DEF Calls, Metering
    <3>2. CASE Return(r)
      BY <3>2, ReturnType
    <3>3. CASE lw[r].balance >= Amount(r) /\ Step(r, "WriteWithdraw",
          DeductFunds(lw[r], Amount(r)), ls[r])
      BY <3>3, <2>1, <2>2, StepType DEF Calls, Metering
    <3> QED
      BY <1>20, <2>1, <3>1, <3>2, <3>3, ArgTypes DEF Transfer
  <2>4. TablesOK'
    BY <1>20, ArgTypes DEF Transfer, TablesOK, rows, Send
  <2>5. HistoryOK' /\ CovenantTypeOK'
    BY <1>20 DEF Transfer, HistoryOK, CovenantTypeOK, covenantVars
  <2> QED BY <2>3, <2>4, <2>5
<1>21. ASSUME NEW r \in Requests, ReadStart(r) PROVE TypeOK'
  <2>1. HandlersOK'
    <3> DEFINE new == [status |-> "active", user |-> User(r), power |-> 0,
                       cost |-> 0, pda |-> FALSE]
    <3>1. /\ User(r) \in Users /\ wallet[User(r)] \in WalletRow
          /\ Amount(r) \in Nat
      BY <1>21, ArgTypes DEF ReadStart, Metering, TablesOK
    <3>2. LockFunds(wallet[User(r)], Amount(r)) \in WalletRow
      BY <3>1, WalletOperations
    <3>3. new \in SessionRow
      BY <3>1 DEF SessionRow
    <3>4. CASE Step(r, "WriteLock", LockFunds(wallet[User(r)], Amount(r)), new)
      <4> HIDE DEF new
      <4> QED
        BY <3>2, <3>3, <3>4, StepType DEF Calls, Metering
    <3> QED
      BY <1>21, <3>4, ReturnType DEF ReadStart
  <2>2. TablesOK'
    BY <1>21 DEF ReadStart, TablesOK, rows
  <2>3. HistoryOK' /\ CovenantTypeOK'
    BY <1>21 DEF ReadStart, HistoryOK, CovenantTypeOK, hist, covenantVars
  <2> QED BY <2>1, <2>2, <2>3
<1>22. ASSUME NEW r \in Requests, WriteLock(r) PROVE TypeOK'
  <2>1. HandlersOK'
    BY <1>22, GotoType DEF WriteLock, Calls, Metering
  <2>2. TablesOK'
    BY <1>22, ArgTypes DEF WriteLock, TablesOK, rows, UpdateWalletBalance,
         HandlersOK
  <2>3. HistoryOK' /\ CovenantTypeOK'
    BY <1>22 DEF WriteLock, HistoryOK, CovenantTypeOK, hist, covenantVars
  <2> QED BY <2>1, <2>2, <2>3
<1>23. ASSUME NEW r \in Requests, OpenEscrow(r) PROVE TypeOK'
  <2>1. HandlersOK'
    BY <1>23, GotoType, ReturnType DEF OpenEscrow, Calls, Metering
  <2>2. TablesOK'
    BY <1>23 DEF OpenEscrow, TablesOK, rows
  <2>3. HistoryOK' /\ CovenantTypeOK'
    BY <1>23, CovenantTypes, BillingAssumption DEF OpenEscrow, HistoryOK,
         CovenantTypeOK, hist, covenantVars, Sessions
  <2> QED BY <2>1, <2>2, <2>3
<1>24. ASSUME NEW r \in Requests, IndexEscrow(r) PROVE TypeOK'
  <2>1. HandlersOK'
    <3>1. /\ lw[r] \in WalletRow
          /\ [ls[r] EXCEPT !.pda = TRUE] \in SessionRow
      BY DEF HandlersOK, SessionRow
    <3>2. CASE Step(r, "InsertSession", lw[r], [ls[r] EXCEPT !.pda = TRUE])
      BY <3>1, <3>2, StepType DEF Calls, Metering
    <3> QED
      BY <1>24, <3>2, ReturnType DEF IndexEscrow
  <2>2. TablesOK'
    BY <1>24 DEF IndexEscrow, TablesOK, rows
  <2>3. HistoryOK' /\ CovenantTypeOK'
    BY <1>24, IndexTypes, BillingAssumption DEF IndexEscrow, HistoryOK,
         CovenantTypeOK, hist, covenantVars, JobStatus, Sessions
  <2> QED BY <2>1, <2>2, <2>3
<1>25. ASSUME NEW r \in Requests, InsertSession(r) PROVE TypeOK'
  <2>1. HandlersOK'
    BY <1>25, GotoType DEF InsertSession, Calls, Metering
  <2>2. TablesOK'
    BY <1>25 DEF InsertSession, TablesOK, rows, PutSession, HandlersOK,
         Sessions
  <2>3. HistoryOK' /\ CovenantTypeOK'
    BY <1>25 DEF InsertSession, HistoryOK, CovenantTypeOK, hist, covenantVars
  <2> QED BY <2>1, <2>2, <2>3
<1>26. ASSUME NEW r \in Requests, ReadUsage(r) PROVE TypeOK'
  <2>1. HandlersOK'
    BY <1>26, StepType, ArgTypes DEF ReadUsage, Calls, Metering, TablesOK,
         HandlersOK
  <2>2. TablesOK'
    BY <1>26 DEF ReadUsage, TablesOK, rows
  <2>3. HistoryOK' /\ CovenantTypeOK'
    BY <1>26 DEF ReadUsage, HistoryOK, CovenantTypeOK, hist, covenantVars
  <2> QED BY <2>1, <2>2, <2>3
<1>27. ASSUME NEW r \in Requests, InsertUsage(r) PROVE TypeOK'
  <2>0. Amount(r) \in Nat
    BY <1>27, ArgTypes DEF InsertUsage, Metering
  <2>1. Metered(ls[r], Amount(r)) \in SessionRow
    BY <2>0, MeteredType DEF HandlersOK
  <2>2. HandlersOK'
    <3>1. CASE Return(r)
      BY <3>1, ReturnType
    <3>2. CASE Step(r, "WriteUsage", lw[r], Metered(ls[r], Amount(r)))
      BY <3>2, <2>1, StepType DEF Calls, Metering, HandlersOK
    <3> QED
      BY <1>27, <3>1, <3>2 DEF InsertUsage
  <2>3. TablesOK'
    BY <1>27, <2>0, ArgTypes DEF InsertUsage, TablesOK
  <2>4. HistoryOK' /\ CovenantTypeOK'
    BY <1>27 DEF InsertUsage, HistoryOK, CovenantTypeOK, hist, covenantVars
  <2> QED BY <2>2, <2>3, <2>4
<1>28. ASSUME NEW r \in Requests, WriteUsage(r) PROVE TypeOK'
  <2>1. HandlersOK'
    BY <1>28, ReturnType DEF WriteUsage, Calls, Metering
  <2>2. TablesOK'
    BY <1>28, ArgTypes DEF WriteUsage, TablesOK, rows, PutSession, HandlersOK
  <2>3. HistoryOK' /\ CovenantTypeOK'
    BY <1>28 DEF WriteUsage, HistoryOK, CovenantTypeOK, hist, covenantVars
  <2> QED BY <2>1, <2>2, <2>3
<1>29. ASSUME NEW r \in Requests, ReadEnd(r) PROVE TypeOK'
  <2>1. HandlersOK'
    <3> DEFINE row == [session[Session(r)] EXCEPT !.status = "completed",
                                                  !.cost = Amount(r)]
    <3>1. session[Session(r)] \in SessionRow /\ Amount(r) \in Nat
      BY <1>29, ArgTypes DEF ReadEnd, Metering, TablesOK
    <3>2. row \in SessionRow /\ lw[r] \in WalletRow
      BY <3>1 DEF SessionRow, HandlersOK
    <3>3. CASE Step(r, "WriteEnd", lw[r], row)
      <4> HIDE DEF row
      <4> QED
        BY <3>2, <3>3, StepType DEF Calls, Metering
    <3> QED
      BY <1>29, <3>3, ReturnType DEF ReadEnd
  <2>2. TablesOK'
    BY <1>29 DEF ReadEnd, TablesOK, rows
  <2>3. HistoryOK' /\ CovenantTypeOK'
    BY <1>29 DEF ReadEnd, HistoryOK, CovenantTypeOK, hist, covenantVars
  <2> QED BY <2>1, <2>2, <2>3
<1>30. ASSUME NEW r \in Requests, WriteEnd(r) PROVE TypeOK'
  <2>1. HandlersOK'
    BY <1>30, GotoType DEF WriteEnd, Calls, Metering
  <2>2. TablesOK'
    BY <1>30, ArgTypes DEF WriteEnd, TablesOK, rows, PutSession, HandlersOK
  <2>3. HistoryOK' /\ CovenantTypeOK'
    BY <1>30 DEF WriteEnd, HistoryOK, CovenantTypeOK, hist, covenantVars
  <2> QED BY <2>1, <2>2, <2>3
<1>31. ASSUME NEW r \in Requests, SubmitEscrow(r) PROVE TypeOK'
  <2>1. HandlersOK'
    BY <1>31, GotoType DEF SubmitEscrow, Calls, Metering
  <2>2. TablesOK'
    BY <1>31 DEF SubmitEscrow, TablesOK, rows
  <2>3. HistoryOK' /\ CovenantTypeOK'
    BY <1>31, CovenantTypes, ArgTypes, BillingAssumption DEF SubmitEscrow,
         HistoryOK, CovenantTypeOK, hist, covenantVars
  <2> QED BY <2>1, <2>2, <2>3
<1>32. ASSUME NEW r \in Requests, IndexSubmit(r) PROVE TypeOK'
  <2>1. HandlersOK'
    BY <1>32, GotoType DEF IndexSubmit, Calls, Metering
  <2>2. TablesOK'
    BY <1>32 DEF IndexSubmit, TablesOK, rows
  <2>3. HistoryOK' /\ CovenantTypeOK'
    BY <1>32, IndexTypes, ArgTypes, BillingAssumption DEF IndexSubmit,
         HistoryOK, CovenantTypeOK, hist, covenantVars, JobStatus
  <2> QED BY <2>1, <2>2, <2>3
<1>33. ASSUME NEW r \in Requests, ReadPay(r) PROVE TypeOK'
  <2>1. HandlersOK'
    BY <1>33, ReturnType, StepType, WalletOperations, ArgTypes DEF ReadPay,
         Calls, Metering, TablesOK, HandlersOK, WalletRow
  <2>2. TablesOK'
    BY <1>33 DEF ReadPay, TablesOK, rows
  <2>3. HistoryOK' /\ CovenantTypeOK'
    BY <1>33 DEF ReadPay, HistoryOK, CovenantTypeOK, hist, covenantVars
  <2> QED BY <2>1, <2>2, <2>3
<1>34. ASSUME NEW r \in Requests, ReadDispute(r) PROVE TypeOK'
  <2>1. HandlersOK'
    BY <1>34, GotoType, ReturnType DEF ReadDispute, Calls, Metering
  <2>2. TablesOK'
    BY <1>34 DEF ReadDispute, TablesOK, rows
  <2>3. HistoryOK' /\ CovenantTypeOK'
    BY <1>34 DEF ReadDispute, HistoryOK, CovenantTypeOK, hist, covenantVars
  <2> QED BY <2>1, <2>2, <2>3
<1>35. ASSUME NEW r \in Requests, Dispute(r) PROVE TypeOK'
  <2>1. HandlersOK'
    BY <1>35, ReturnType DEF Dispute, Calls, Metering
  <2>2. TablesOK'
    BY <1>35 DEF Dispute, TablesOK, rows
  <2>3. HistoryOK' /\ CovenantTypeOK'
    BY <1>35, CovenantTypes, ArgTypes, BillingAssumption DEF Dispute,
         HistoryOK, CovenantTypeOK, hist, covenantVars
  <2> QED BY <2>1, <2>2, <2>3
<1>36. ASSUME NEW r \in Requests, Arrive(r) PROVE TypeOK'
  <2>1. PICK o \in AllOps, u \in Users, s \in Sessions, a \in Int :
          /\ Receive(r, o, u, s, a)
          /\ o \in {"start", "usage", "end"} => a \in Nat
    BY <1>36, BillingAssumption DEF Arrive, AllOps, TablesOK, SessionRow,
         Sessions
  <2>2. /\ Entry[o] \in Calls
        /\ Entry[o] \in Metering => o \in {"start", "usage", "end"}
    BY DEF Entry, AllOps, Calls, Metering
  <2>3. HandlersOK'
    BY <2>1, <2>2 DEF Receive, HandlersOK, Args
  <2> QED
    BY <2>1, <2>3 DEF Receive, TablesOK, HistoryOK, CovenantTypeOK, rows,
         hist, covenantVars
<1>37. ASSUME NEW r \in Requests, Fail(r) PROVE TypeOK'
  BY <1>37, ReturnType DEF Fail, TablesOK, HistoryOK, CovenantTypeOK, rows,
       hist, covenantVars
<1>38. CASE Crash
  <2>1. HandlersOK'
    BY <1>38, EmptyRows DEF Crash, HandlersOK, Metering
  <2> QED
    BY <1>38, <2>1 DEF Crash, TablesOK, HistoryOK, CovenantTypeOK, rows, hist,
         covenantVars
<1>39. ASSUME NEW u \in Users, ChainDeposit(u) PROVE TypeOK'
  BY <1>39, BillingAssumption DEF ChainDeposit, HandlersOK, TablesOK,
       HistoryOK, CovenantTypeOK, rows, local, hist, covenantVars
<1>40. CASE UNCHANGED vars
  BY <1>40 DEF vars, HandlersOK, TablesOK, HistoryOK, CovenantTypeOK, rows,
       local, hist, covenantVars
<1> QED
  BY <1>1, <1>2, <1>3, <1>4, <1>5, <1>6, <1>7, <1>8, <1>9, <1>10, <1>11,
       <1>12, <1>13, <1>14, <1>15, <1>16, <1>17, <1>18, <1>19, <1>20, <1>21,
       <1>22, <1>23, <1>24, <1>25, <1>26, <1>27, <1>28, <1>29, <1>30, <1>31,
       <1>32, <1>33, <1>34, <1>35, <1>36, <1>37, <1>38, <1>39, <1>40 DEF Next,
       Handler, Quiet

LEMMA TypeInit == Init => TypeOK
<1> SUFFICES ASSUME Init PROVE TypeOK
  OBVIOUS
<1>1. TablesOK
  <2>1. wallet \in [Users -> WalletRow]
    BY EmptyRows, BillingAssumption DEF Init, WalletRow
  <2>2. \A u \in Users : wallet[u].balance \in Nat
    BY BillingAssumption DEF Init, EmptyRow
  <2>3. chain \in [Users -> Nat]
    BY <2>2 DEF Init
  <2> QED
    BY <2>1, <2>3, EmptyRows DEF Init, TablesOK
<1>2. HandlersOK
  BY EmptyRows, BillingAssumption DEF Init, HandlersOK, Args, AllOps, Sessions,
       Metering
<1>3. HistoryOK
  BY <1>1 DEF Init, HistoryOK, TablesOK, WalletRow
<1>4. CovenantTypeOK
  BY DEF Init, CovenantInit, CovenantTypeOK, JobStatus
<1> QED
  BY <1>1, <1>2, <1>3, <1>4 DEF TypeOK

(* Tables and handlers keep their types for deposits of either sign: no    *)
(* handler writes a negative lock, running cost or usage record, whatever  *)
(* it is interleaved with.                                                 *)
THEOREM TypeCorrect == Spec => []TypeOK
BY TypeInit, TypeStep, PTL DEF Spec

-----------------------------------------------------------------------------
(* How a request moves on, and what has arrived.                           *)

(* The calls of GetWalletBalance.                                          *)
SyncCalls == {"ReadBalance", "TokenBalance", "SyncBalance"}

(* A step of a handler moves that handler on and changes no argument.      *)
LEMMA HandlerMoves ==
  ASSUME NEW r \in Requests, Handler(r)
  PROVE  \E c \in Calls \cup {"done"} : \E w, s : Step(r, c, w, s)
<1>1. ASSUME NEW c \in Calls, Goto(r, c)
      PROVE  \E d \in Calls \cup {"done"} : \E w, s : Step(r, d, w, s)
  BY <1>1 DEF Goto
<1>2. ASSUME Return(r)
      PROVE  \E d \in Calls \cup {"done"} : \E w, s : Step(r, d, w, s)
  BY <1>2 DEF Return
<1>3. ASSUME NEW c \in Calls, NEW w, NEW s, Step(r, c, w, s)
      PROVE  \E d \in Calls \cup {"done"} : \E v, t : Step(r, d, v, t)
  BY <1>3
<1>4. CASE \/ CheckWallet(r) \/ CreateATA(r) \/ InsertWallet(r)
           \/ ReadBalance(r) \/ TokenBalance(r) \/ SyncBalance(r)
  BY <1>1, <1>2, <1>3, <1>4 DEF CheckWallet, CreateATA, InsertWallet,
     ReadBalance, TokenBalance, SyncBalance, Calls
<1>5. CASE \/ ConfirmDeposit(r) \/ ReadDeposit(r) \/ WriteDeposit(r)
           \/ DepositTxn(r) \/ DepositStatus(r)
  BY <1>1, <1>2, <1>3, <1>5 DEF ConfirmDeposit, ReadDeposit, WriteDeposit,
     DepositTxn, DepositStatus, Calls
<1>6. CASE \/ ReadWithdraw(r) \/ WithdrawTxn(r) \/ Transfer(r)
           \/ WithdrawFailed(r) \/ WriteWithdraw(r) \/ WithdrawStatus(r)
  BY <1>1, <1>2, <1>3, <1>6 DEF ReadWithdraw, WithdrawTxn, Transfer,
     WithdrawFailed, WriteWithdraw, WithdrawStatus, Calls
<1>7. CASE \/ ReadStart(r) \/ WriteLock(r) \/ OpenEscrow(r) \/ IndexEscrow(r)
           \/ InsertSession(r) \/ StartTxn(r)
  BY <1>1, <1>2, <1>3, <1>7 DEF ReadStart, WriteLock, OpenEscrow, IndexEscrow,
     InsertSession, StartTxn, Calls
<1>8. CASE \/ ReadUsage(r) \/ InsertUsage(r) \/ WriteUsage(r)
           \/ ReadDispute(r) \/ Dispute(r)
  BY <1>1, <1>2, <1>3, <1>8 DEF ReadUsage, InsertUsage, WriteUsage,
     ReadDispute, Dispute, Calls
<1>9. CASE \/ ReadEnd(r) \/ WriteEnd(r) \/ SubmitEscrow(r) \/ IndexSubmit(r)
           \/ ReadPay(r) \/ WritePay(r) \/ EndTxn(r)
  BY <1>1, <1>2, <1>3, <1>9 DEF ReadEnd, WriteEnd, SubmitEscrow, IndexSubmit,
     ReadPay, WritePay, EndTxn, Calls
<1> QED
  BY <1>4, <1>5, <1>6, <1>7, <1>8, <1>9 DEF Handler

(* What has arrived stays: a kind of request that has not arrived after a  *)
(* step had not arrived before it.                                         *)
LEMMA NeverBefore ==
  ASSUME TypeOK, [Next]_vars, NEW o, Never(o)'
  PROVE  Never(o)
<1>1. ASSUME NEW r \in Requests, NEW c \in Calls \cup {"done"}, NEW w, NEW s,
             Step(r, c, w, s)
      PROVE  Never(o)
  <2>1. c # "idle"
    BY DEF Calls
  <2> QED
    BY <1>1, <2>1 DEF Never, Step, TypeOK, HandlersOK
<1>2. ASSUME NEW r \in Requests, Arrive(r) PROVE Never(o)
  <2>1. PICK p, u, s, a : Receive(r, p, u, s, a)
    BY <1>2 DEF Arrive
  <2> QED
    BY <2>1 DEF Never, Receive, TypeOK, HandlersOK
<1>3. ASSUME NEW r \in Requests, Handler(r) PROVE Never(o)
  BY <1>1, <1>3, HandlerMoves
<1>4. ASSUME NEW r \in Requests, Fail(r) PROVE Never(o)
  BY <1>1, <1>4 DEF Fail, Return
<1>5. CASE Crash
  BY <1>5 DEF Crash, Never, TypeOK, HandlersOK
<1>6. ASSUME NEW u \in Users, ChainDeposit(u) PROVE Never(o)
  BY <1>6 DEF ChainDeposit, Never, local
<1>7. CASE UNCHANGED vars
  BY <1>7 DEF vars, local, Never
<1> QED
  BY <1>2, <1>3, <1>4, <1>5, <1>6, <1>7 DEF Next, Quiet

-----------------------------------------------------------------------------
(* Sessions, their usage records and their escrow.  What a handler holds   *)
(* of a session may be old; the invariant says what is true of the copy    *)
(* however old it is.                                                      *)

UsageCalls == {"ReadUsage", "InsertUsage", "WriteUsage"}

EndCalls == {"ReadEnd", "WriteEnd", "SubmitEscrow", "IndexSubmit", "ReadPay",
             "WritePay", "EndTxn"}

(* The calls of StartRentalSession up to the one that inserts the row.     *)
OpeningCalls == {"ReadStart", "WriteLock", "OpenEscrow", "IndexEscrow",
                 "InsertSession"}

(* A handler makes the calls of its own operation.                         *)
OpInv ==
  \A r \in Requests : Running(r) =>
    /\ pc[r] \in UsageCalls <=> arg[r].op = "usage"
    /\ pc[r] \in EndCalls <=> arg[r].op = "end"
    /\ pc[r] \in SyncCalls <=> arg[r].op = "balance"

(* A handler that names a session names one that has a row.                *)
Named(r) ==
  pc[r] \in UsageCalls \cup {"ReadEnd", "WriteEnd"} =>
    session[Session(r)].status # "none"

(* The row of a session is inserted once.                                  *)
Unborn(r) ==
  pc[r] \in OpeningCalls \cup {"idle"} => session[r].status = "none"

(* The copy of a session that StartRentalSession makes, then the ones that *)
(* ProcessUsageUpdate and EndRentalSession read.                           *)
Made(r) ==
  pc[r] \in OpeningCalls \ {"ReadStart"} =>
    ls[r].status = "active" /\ ls[r].cost = 0

Copied(r) ==
  /\ pc[r] \in {"InsertUsage", "WriteUsage"} =>
       /\ ls[r].status # "none"
       /\ ls[r].status = "active" => ls[r].cost <= records[Session(r)]
  /\ pc[r] = "WriteEnd" => ls[r].status = "completed"

(* A copy that can still be written has its escrow behind it.              *)
Escrowed(r) ==
  CovenantEnabled =>
    /\ pc[r] = "InsertSession" => ls[r].pda /\ job[r] # "none"
    /\ pc[r] \in {"InsertUsage", "WriteUsage", "WriteEnd"} =>
         ls[r].pda /\ job[Session(r)] # "none"

CopyInv(r) == Named(r) /\ Unborn(r) /\ Made(r) /\ Copied(r) /\ Escrowed(r)

SessionInv ==
  /\ TypeOK
  /\ EscrowBehindSession
  /\ CostMetered
  /\ \A r \in Requests : CopyInv(r)

(* No request overlapped another, so at most one runs.                     *)
SerialInv ==
  serial => \A q, r \in Requests : Running(q) /\ Running(r) => q = r

(* As long as no usage update overlaps an end: what was ended stays ended. *)
Undisturbed == serial \/ Never("usage")

EndInv ==
  Undisturbed =>
    /\ \A s \in Sessions :
         job[s] \in {"delivered", "disputed"} => session[s].status = "completed"
    /\ \A r \in Requests :
         /\ pc[r] \in {"InsertUsage", "WriteUsage"} =>
              ls[r].status = session[Session(r)].status
         /\ pc[r] \in EndCalls \ {"ReadEnd", "WriteEnd"} =>
              session[Session(r)].status = "completed"

(* The audit log: a row is written before tokens move, the balance before  *)
(* a row is confirmed.                                                     *)
AuditInv ==
  /\ PaymentsAudited
  /\ \A r \in Requests :
       /\ pc[r] = "Transfer" => txn[r] # "none"
       /\ pc[r] \in {"DepositTxn", "DepositStatus", "WithdrawStatus"} =>
            r \in applied

(* A session that was charged is ended, and an end that is under way, if   *)
(* nothing overlapped it, found its session active and so not charged.     *)
ChargeInv ==
  /\ \A q \in applied : pc[q] # "idle"
  /\ serial =>
       /\ \A q \in applied : arg[q].op = "end" =>
            session[Session(q)].status = "completed"
       /\ \A r \in Requests :
            pc[r] \in EndCalls \ {"ReadEnd", "EndTxn"} =>
              \A q \in applied : arg[q].op = "end" => Session(q) # Session(r)
  /\ ChargedOnce

(* The copy of a wallet that a handler is about to write differs from the  *)
(* row by exactly what the handler applies, if nothing overlapped it.      *)
Change(c, a) == IF c = "WriteDeposit" THEN a
                ELSE IF c \in {"WriteWithdraw", "WritePay"} THEN 0 - a ELSE 0

WritingCalls == {"WriteDeposit", "WithdrawTxn", "Transfer", "WriteWithdraw",
                 "WriteLock", "WritePay"}

AccountInv ==
  /\ \A u \in Users \ wallets : wallet[u].balance = 0
  /\ \A r \in Requests :
       pc[r] \in WritingCalls \cup {"TokenBalance", "SyncBalance"} =>
         User(r) \in wallets
  /\ serial /\ Never("balance") =>
       /\ AccountingCorrect
       /\ \A r \in Requests : pc[r] \in WritingCalls =>
            lw[r].balance = wallet[User(r)].balance
                              + Change(pc[r], Amount(r))

BillingInv ==
  /\ SessionInv /\ OpInv /\ SerialInv
  /\ EndInv /\ AuditInv /\ ChargeInv /\ AccountInv

-----------------------------------------------------------------------------
(* The handlers' calls that touch neither a session nor its escrow.        *)
Elsewhere(r) ==
  \/ CheckWallet(r) \/ CreateATA(r) \/ InsertWallet(r)
  \/ ReadBalance(r) \/ TokenBalance(r) \/ SyncBalance(r)
  \/ ConfirmDeposit(r) \/ ReadDeposit(r) \/ WriteDeposit(r)
  \/ DepositTxn(r) \/ DepositStatus(r)
  \/ ReadWithdraw(r) \/ WithdrawTxn(r) \/ Transfer(r)
  \/ WithdrawFailed(r) \/ WriteWithdraw(r) \/ WithdrawStatus(r)
  \/ StartTxn(r) \/ IndexSubmit(r) \/ ReadPay(r) \/ WritePay(r) \/ EndTxn(r)
  \/ ReadDispute(r) \/ Fail(r)

SessionCalls == OpeningCalls \cup UsageCalls \cup {"ReadEnd", "WriteEnd",
                "SubmitEscrow", "idle"}

MovesElsewhere(r) ==
  \E c \in (Calls \cup {"done"}) \ SessionCalls : \E w, s : Step(r, c, w, s)

LEMMA ElsewhereMoves ==
  ASSUME NEW r \in Requests, Elsewhere(r)
  PROVE  UNCHANGED <<session, records, job>> /\ MovesElsewhere(r)
<1> DEFINE Others == (Calls \cup {"done"}) \ SessionCalls
<1>0. "done" \in Others
  BY DEF SessionCalls, OpeningCalls, UsageCalls
<1>1. ASSUME NEW c \in Others, Goto(r, c) PROVE MovesElsewhere(r)
  BY <1>1 DEF Goto, MovesElsewhere
<1>2. ASSUME Return(r) PROVE MovesElsewhere(r)
  BY <1>0, <1>2 DEF Return, MovesElsewhere
<1>3. ASSUME NEW c \in Others, NEW w, NEW s, Step(r, c, w, s)
      PROVE  MovesElsewhere(r)
  BY <1>3 DEF MovesElsewhere
<1>a. {"CreateATA", "InsertWallet", "TokenBalance", "SyncBalance",
       "ReadDeposit", "WriteDeposit", "DepositTxn", "DepositStatus",
       "WithdrawTxn", "Transfer", "WithdrawFailed", "WriteWithdraw",
       "WithdrawStatus", "ReadPay", "WritePay", "EndTxn", "Dispute"}
      \subseteq Others
  BY DEF SessionCalls, OpeningCalls, UsageCalls, Calls
<1> HIDE DEF Others
<1>4. CASE \/ CheckWallet(r) \/ CreateATA(r) \/ InsertWallet(r)
           \/ ReadBalance(r) \/ TokenBalance(r) \/ SyncBalance(r)
  BY <1>a, <1>1, <1>2, <1>3, <1>4 DEF CheckWallet, CreateATA, InsertWallet,
     ReadBalance, TokenBalance, SyncBalance, rows, covenantVars
<1>5. CASE \/ ConfirmDeposit(r) \/ ReadDeposit(r) \/ WriteDeposit(r)
           \/ DepositTxn(r) \/ DepositStatus(r)
  BY <1>a, <1>1, <1>2, <1>3, <1>5 DEF ConfirmDeposit, ReadDeposit,
     WriteDeposit, DepositTxn, DepositStatus, rows, covenantVars
<1>6. CASE \/ ReadWithdraw(r) \/ WithdrawTxn(r) \/ Transfer(r)
           \/ WithdrawFailed(r) \/ WriteWithdraw(r) \/ WithdrawStatus(r)
  BY <1>a, <1>1, <1>2, <1>3, <1>6 DEF ReadWithdraw, WithdrawTxn, Transfer,
     WithdrawFailed, WriteWithdraw, WithdrawStatus, rows, covenantVars
<1>7. CASE \/ StartTxn(r) \/ IndexSubmit(r) \/ ReadPay(r) \/ WritePay(r)
           \/ EndTxn(r) \/ ReadDispute(r) \/ Fail(r)
  BY <1>a, <1>1, <1>2, <1>3, <1>7 DEF StartTxn, IndexSubmit, ReadPay,
     WritePay, EndTxn, ReadDispute, Fail, rows, covenantVars
<1> QED
  BY <1>4, <1>5, <1>6, <1>7 DEF Elsewhere

(* Next, with the steps that matter to a session told apart.               *)
LEMMA SessionSteps ==
  ASSUME [Next]_vars
  PROVE  \/ \E r \in Requests : Elsewhere(r)
         \/ \E r \in Requests :
              \/ ReadStart(r) \/ WriteLock(r) \/ OpenEscrow(r)
              \/ IndexEscrow(r) \/ InsertSession(r)
              \/ ReadUsage(r) \/ InsertUsage(r) \/ WriteUsage(r)
              \/ ReadEnd(r) \/ WriteEnd(r) \/ SubmitEscrow(r) \/ Dispute(r)
         \/ \E r \in Requests : Arrive(r)
         \/ Crash
         \/ \E u \in Users : ChainDeposit(u)
         \/ UNCHANGED vars
BY DEF Next, Handler, Quiet, Elsewhere

(* What a step that other handlers take may do to the tables without       *)
(* disturbing request q: rows are not removed, records and escrows do not  *)
(* go back, and no row appears under q's own name.                         *)
Harmless(q) ==
  /\ \A s \in Sessions :
       session[s].status # "none" => session'[s].status # "none"
  /\ session[q].status = "none" => session'[q].status = "none"
  /\ \A s \in Sessions : records[s] <= records'[s]
  /\ \A s \in Sessions : job[s] # "none" => job'[s] # "none"

LEMMA Undisturbing ==
  ASSUME TypeOK, TypeOK', NEW q \in Requests, CopyInv(q), Harmless(q),
         pc'[q] = pc[q], ls'[q] = ls[q], arg'[q] = arg[q]
  PROVE  CopyInv(q)'
<1>0. Session(q) \in Sessions /\ Session(q)' = Session(q) /\ ls[q] \in SessionRow
      /\ q \in Sessions
  BY ArgTypes DEF TypeOK, HandlersOK, Session, Sessions
<1>1. Named(q)' /\ Unborn(q)' /\ Made(q)'
  BY <1>0 DEF CopyInv, Named, Unborn, Made, Harmless
<1>2. Copied(q)'
  <2>1. /\ ls[q].cost \in Nat /\ records[Session(q)] \in Nat
        /\ records'[Session(q)] \in Nat
        /\ records[Session(q)] <= records'[Session(q)]
    BY <1>0 DEF TypeOK, TablesOK, SessionRow, Harmless
  <2> QED
    BY <1>0, <2>1 DEF CopyInv, Copied
<1>3. Escrowed(q)'
  BY <1>0 DEF CopyInv, Escrowed, Harmless
<1> QED
  BY <1>1, <1>2, <1>3 DEF CopyInv

(* A step of request r that disturbs no other request keeps SessionInv if  *)
(* it leaves r and the tables in order.                                    *)
LEMMA SessionMove ==
  ASSUME SessionInv, TypeOK', NEW r \in Requests, NEW c, NEW w, NEW s,
         Step(r, c, w, s), CopyInv(r)', EscrowBehindSession', CostMetered',
         \A q \in Requests \ {r} : Harmless(q)
  PROVE  SessionInv'
<1>1. ASSUME NEW q \in Requests \ {r} PROVE CopyInv(q)'
  <2>1. pc'[q] = pc[q] /\ ls'[q] = ls[q] /\ arg'[q] = arg[q]
    BY DEF Step, SessionInv, TypeOK, HandlersOK
  <2> QED
    BY <2>1, Undisturbing DEF SessionInv
<1> QED
  BY <1>1 DEF SessionInv

LEMMA SameTables ==
  ASSUME TypeOK, UNCHANGED <<session, records, job>>
  PROVE  \A q \in Requests : Harmless(q)
BY DEF Harmless, TypeOK, TablesOK

LEMMA SameSessions ==
  ASSUME TypeOK, UNCHANGED <<session, records>>,
         \A s \in Sessions : job[s] # "none" => job'[s] # "none"
  PROVE  \A q \in Requests : Harmless(q)
BY DEF Harmless, TypeOK, TablesOK

(* The escrow is opened once and never un-opened.                          *)
LEMMA EscrowForward ==
  ASSUME CovenantTypeOK, NEW j \in Jobs, NEW landed \in BOOLEAN,
         NEW reported \in BOOLEAN,
         \/ CreateJob(j, landed, reported)
         \/ SubmitWork(j, landed, reported)
         \/ RaiseDispute(j, landed, reported)
  PROVE  \A s \in Jobs : job[s] # "none" => job'[s] # "none"
BY DEF CreateJob, SubmitWork, RaiseDispute, SignAndSend, CovenantTypeOK

LEMMA SessionStep == SessionInv /\ [Next]_vars => SessionInv'
<1> SUFFICES ASSUME SessionInv, [Next]_vars PROVE SessionInv'
  OBVIOUS
<1>0. TypeOK /\ TypeOK' /\ Jobs = Requests /\ Sessions = Requests
  BY TypeStep, BillingAssumption DEF SessionInv, Sessions
<1> USE <1>0
<1>a. ASSUME NEW r \in Requests
      PROVE  /\ Session(r) \in Requests /\ Session(r)' \in Requests
             /\ pc[r] \in Metering => Amount(r) \in Nat
             /\ Amount(r) \in Int /\ CopyInv(r)
             /\ ls[r] \in SessionRow /\ session[Session(r)] \in SessionRow
             /\ session[r] \in SessionRow
             /\ EscrowBehindSession /\ CostMetered
  BY ArgTypes DEF TypeOK, SessionInv, HandlersOK, TablesOK, Args, Session
<1>b. ASSUME NEW r \in Requests, NEW c, NEW w, NEW s, Step(r, c, w, s)
      PROVE  pc'[r] = c /\ ls'[r] = s /\ Session(r)' = Session(r)
  BY <1>b DEF Step, TypeOK, HandlersOK, Session
<1>c. ASSUME NEW r \in Requests, NEW c, NEW w, NEW s, Step(r, c, w, s),
             c \notin SessionCalls \ {"SubmitEscrow"}
      PROVE  CopyInv(r)'
  BY <1>b, <1>c DEF CopyInv, Named, Unborn, Made, Copied, Escrowed,
     SessionCalls, OpeningCalls, UsageCalls
<1>d. ASSUME UNCHANGED <<session, records>>,
             \A s \in Sessions : job[s] # "none" => job'[s] # "none"
      PROVE  EscrowBehindSession' /\ CostMetered'
  BY <1>d DEF SessionInv, EscrowBehindSession, CostMetered
<1>1. ASSUME NEW r \in Requests, Elsewhere(r) PROVE SessionInv'
  <2>1. PICK c, w, s : c \notin SessionCalls /\ Step(r, c, w, s)
    BY <1>1, ElsewhereMoves DEF MovesElsewhere
  <2>2. UNCHANGED <<session, records, job>>
    BY <1>1, ElsewhereMoves
  <2> QED
    BY <2>1, <2>2, <1>c, <1>d, SameTables, SessionMove
<1>2. ASSUME NEW r \in Requests, ReadStart(r) PROVE SessionInv'
  <2>1. UNCHANGED <<session, records, job>>
    BY <1>2 DEF ReadStart, rows, covenantVars
  <2>2. PICK c, w, s : /\ Step(r, c, w, s)
                       /\ \/ c = "done"
                          \/ c = "WriteLock" /\ s.status = "active" /\ s.cost = 0
    BY <1>2 DEF ReadStart, Return
  <2>3. session[r].status = "none"
    BY <1>2, <1>a DEF ReadStart, CopyInv, Unborn, OpeningCalls
  <2>4. CopyInv(r)'
    BY <2>1, <2>2, <2>3, <1>b DEF CopyInv, Named, Unborn, Made, Copied,
       Escrowed, OpeningCalls, UsageCalls
  <2> QED
    BY <2>1, <2>2, <2>4, <1>d, SameTables, SessionMove
<1>3. ASSUME NEW r \in Requests, WriteLock(r) PROVE SessionInv'
  <2>1. UNCHANGED <<session, records, job>>
    BY <1>3 DEF WriteLock, covenantVars
  <2>2. PICK c : /\ Step(r, c, lw[r], ls[r])
                 /\ \/ c = "OpenEscrow"
                    \/ c = "InsertSession" /\ ~CovenantEnabled
    BY <1>3 DEF WriteLock, Goto
  <2>3. session[r].status = "none" /\ ls[r].status = "active" /\ ls[r].cost = 0
    BY <1>3, <1>a DEF WriteLock, CopyInv, Unborn, Made, OpeningCalls
  <2>4. CopyInv(r)'
    BY <2>1, <2>2, <2>3, <1>b DEF CopyInv, Named, Unborn, Made, Copied,
       Escrowed, OpeningCalls, UsageCalls
  <2> QED
    BY <2>1, <2>2, <2>4, <1>d, SameTables, SessionMove
<1>4. ASSUME NEW r \in Requests, OpenEscrow(r) PROVE SessionInv'
  <2>1. UNCHANGED <<session, records>>
    BY <1>4 DEF OpenEscrow, rows
  <2>2. PICK landed, reported \in BOOLEAN :
          /\ CreateJob(r, landed, reported)
          /\ IF reported THEN Goto(r, "IndexEscrow") ELSE Return(r)
    BY <1>4 DEF OpenEscrow
  <2>3. \A s \in Sessions : job[s] # "none" => job'[s] # "none"
    BY <2>2, EscrowForward DEF TypeOK
  <2>4. PICK c, w, s : /\ Step(r, c, w, s)
                       /\ \/ c = "done"
                          \/ c = "IndexEscrow" /\ s = ls[r]
    BY <2>2 DEF Goto, Return
  <2>5. session[r].status = "none" /\ ls[r].status = "active" /\ ls[r].cost = 0
    BY <1>4, <1>a DEF OpenEscrow, CopyInv, Unborn, Made, OpeningCalls
  <2>6. CopyInv(r)'
    BY <2>1, <2>4, <2>5, <1>b DEF CopyInv, Named, Unborn, Made, Copied,
       Escrowed, OpeningCalls, UsageCalls
  <2> QED
    BY <2>1, <2>3, <2>4, <2>6, <1>d, SameSessions, SessionMove
<1>5. ASSUME NEW r \in Requests, IndexEscrow(r) PROVE SessionInv'
  <2>1. UNCHANGED <<session, records, job>>
    BY <1>5 DEF IndexEscrow, rows
  <2>2. PICK recorded, reported \in BOOLEAN :
          /\ IndexPost(r, "accepted", recorded, reported)
          /\ IF reported
             THEN Step(r, "InsertSession", lw[r], [ls[r] EXCEPT !.pda = TRUE])
             ELSE Return(r)
    BY <1>5 DEF IndexEscrow
  <2>3. reported => job[r] # "none"
    BY <2>2 DEF IndexPost, Reached
  <2>4. PICK c, w, s :
          /\ Step(r, c, w, s)
          /\ \/ c = "done"
             \/ c = "InsertSession" /\ s = [ls[r] EXCEPT !.pda = TRUE] /\ reported
    BY <2>2 DEF Return
  <2>5. session[r].status = "none" /\ ls[r].status = "active" /\ ls[r].cost = 0
    BY <1>5, <1>a DEF IndexEscrow, CopyInv, Unborn, Made, OpeningCalls
  <2>6. CopyInv(r)'
    BY <2>1, <2>3, <2>4, <2>5, <1>a, <1>b DEF CopyInv, Named, Unborn, Made,
       Copied, Escrowed, OpeningCalls, UsageCalls, SessionRow
  <2> QED
    BY <2>1, <2>4, <2>6, <1>d, SameTables, SessionMove
<1>6. ASSUME NEW r \in Requests, InsertSession(r) PROVE SessionInv'
  <2>1. UNCHANGED <<records, job>>
    BY <1>6 DEF InsertSession, covenantVars
  <2>2. Step(r, "StartTxn", lw[r], ls[r])
    BY <1>6 DEF InsertSession, Goto
  <2>3. \A s \in Sessions : session'[s] = IF s = r THEN ls[r] ELSE session[s]
    BY <1>6 DEF InsertSession, PutSession, TypeOK, TablesOK
  <2>4. /\ ls[r].status = "active" /\ ls[r].cost = 0
        /\ CovenantEnabled => ls[r].pda /\ job[r] # "none"
    BY <1>6, <1>a DEF InsertSession, CopyInv, Made, Escrowed, OpeningCalls
  <2>5. CopyInv(r)'
    BY <2>2, <1>c DEF SessionCalls, OpeningCalls, UsageCalls
  <2>6. \A q \in Requests \ {r} : Harmless(q)
    BY <2>1, <2>3, <2>4 DEF Harmless, TypeOK, TablesOK
  <2>7. EscrowBehindSession'
    BY <2>1, <2>3, <2>4, <1>a DEF EscrowBehindSession
  <2>8. CostMetered'
    BY <2>1, <2>3, <2>4, <1>a DEF CostMetered, TypeOK, TablesOK
  <2> QED
    BY <2>2, <2>5, <2>6, <2>7, <2>8, SessionMove
<1>7. ASSUME NEW r \in Requests, ReadUsage(r) PROVE SessionInv'
  <2>1. UNCHANGED <<session, records, job>>
    BY <1>7 DEF ReadUsage, rows, covenantVars
  <2>2. Step(r, "InsertUsage", lw[r], session[Session(r)])
    BY <1>7 DEF ReadUsage
  <2>3. session[Session(r)].status # "none"
    BY <1>7, <1>a DEF ReadUsage, CopyInv, Named, UsageCalls
  <2>4. CopyInv(r)'
    BY <2>1, <2>2, <2>3, <1>a, <1>b DEF CopyInv, Named, Unborn, Made, Copied,
       Escrowed, OpeningCalls, UsageCalls, EscrowBehindSession, CostMetered
  <2> QED
    BY <2>1, <2>2, <2>4, <1>d, SameTables, SessionMove
<1>8. ASSUME NEW r \in Requests, InsertUsage(r) PROVE SessionInv'
  <2>1. UNCHANGED <<session, job>>
    BY <1>8 DEF InsertUsage, covenantVars
  <2>2. \A s \in Sessions :
          records'[s] = IF s = Session(r) THEN records[s] + Amount(r)
                                          ELSE records[s]
    BY <1>8, <1>a DEF InsertUsage, TypeOK, TablesOK
  <2>3. \A s \in Sessions : records[s] \in Nat /\ records[s] <= records'[s]
    <3>1. Amount(r) \in Nat
      BY <1>8, <1>a DEF InsertUsage, Metering
    <3> QED
      BY <3>1, <2>2 DEF TypeOK, TablesOK
  <2>4. PICK c, w, s :
          /\ Step(r, c, w, s)
          /\ \/ c = "done"
             \/ c = "WriteUsage" /\ s = Metered(ls[r], Amount(r))
    BY <1>8 DEF InsertUsage, Return
  <2>5. /\ Metered(ls[r], Amount(r)).status = ls[r].status
        /\ Metered(ls[r], Amount(r)).cost = ls[r].cost + Amount(r)
        /\ Metered(ls[r], Amount(r)).pda = ls[r].pda
        /\ ls[r].cost \in Nat
    BY <1>a DEF Metered, SessionRow
  <2>6. /\ session[Session(r)].status # "none" /\ ls[r].status # "none"
        /\ ls[r].status = "active" => ls[r].cost <= records[Session(r)]
        /\ CovenantEnabled => ls[r].pda /\ job[Session(r)] # "none"
    BY <1>8, <1>a DEF InsertUsage, CopyInv, Named, Copied, Escrowed, UsageCalls
  <2>7. CopyInv(r)'
    <3>1. CASE c = "done"
      BY <3>1, <2>4, <1>c DEF SessionCalls, OpeningCalls, UsageCalls
    <3>2. CASE c = "WriteUsage" /\ s = Metered(ls[r], Amount(r))
      <4>1. s.status = "active" => s.cost <= records'[Session(r)]
        BY <3>2, <2>2, <2>3, <2>5, <2>6, <1>a
      <4>2. Copied(r)'
        BY <3>2, <4>1, <2>4, <2>5, <2>6, <1>b DEF Copied
      <4>3. Named(r)' /\ Unborn(r)' /\ Made(r)' /\ Escrowed(r)'
        BY <3>2, <2>1, <2>4, <2>5, <2>6, <1>b DEF Named, Unborn, Made,
           Escrowed, OpeningCalls, UsageCalls
      <4> QED
        BY <4>2, <4>3 DEF CopyInv
    <3> QED
      BY <3>1, <3>2, <2>4
  <2>8. \A q \in Requests \ {r} : Harmless(q)
    BY <2>1, <2>3 DEF Harmless
  <2>9. EscrowBehindSession'
    BY <2>1, <1>a DEF EscrowBehindSession
  <2>10. CostMetered'
    <3>1. ASSUME NEW s1 \in Sessions, session'[s1].status = "active"
          PROVE  session'[s1].cost <= records'[s1]
      <4>1. session[s1].cost <= records[s1] /\ session[s1].cost \in Nat
        BY <3>1, <2>1, <1>a DEF CostMetered, TypeOK, TablesOK, SessionRow
      <4>2. records[s1] \in Nat /\ records'[s1] \in Nat
        BY DEF TypeOK, TablesOK
      <4> QED
        BY <4>1, <4>2, <2>1, <2>3
    <3> QED
      BY <3>1 DEF CostMetered
  <2> QED
    BY <2>4, <2>7, <2>8, <2>9, <2>10, SessionMove
<1>9. ASSUME NEW r \in Requests, WriteUsage(r) PROVE SessionInv'
  <2>1. UNCHANGED <<records, job>>
    BY <1>9 DEF WriteUsage, covenantVars
  <2>2. PICK w, s : Step(r, "done", w, s)
    BY <1>9 DEF WriteUsage, Return
  <2>3. \A s1 \in Sessions :
          session'[s1] = IF s1 = Session(r) THEN ls[r] ELSE session[s1]
    BY <1>9, <1>a DEF WriteUsage, PutSession, TypeOK, TablesOK
  <2>4. /\ session[Session(r)].status # "none" /\ ls[r].status # "none"
        /\ ls[r].status = "active" => ls[r].cost <= records[Session(r)]
        /\ CovenantEnabled => ls[r].pda /\ job[Session(r)] # "none"
    BY <1>9, <1>a DEF WriteUsage, CopyInv, Named, Copied, Escrowed, UsageCalls
  <2>5. CopyInv(r)'
    BY <2>2, <1>c DEF SessionCalls, OpeningCalls, UsageCalls
  <2>6. \A q \in Requests \ {r} : Harmless(q)
    BY <2>1, <2>3, <2>4 DEF Harmless, TypeOK, TablesOK
  <2>7. EscrowBehindSession'
    BY <2>1, <2>3, <2>4, <1>a DEF EscrowBehindSession
  <2>8. CostMetered'
    BY <2>1, <2>3, <2>4, <1>a DEF CostMetered
  <2> QED
    BY <2>2, <2>5, <2>6, <2>7, <2>8, SessionMove
<1>10. ASSUME NEW r \in Requests, ReadEnd(r) PROVE SessionInv'
  <2>1. UNCHANGED <<session, records, job>>
    BY <1>10 DEF ReadEnd, rows, covenantVars
  <2>2. PICK c, w, s :
          /\ Step(r, c, w, s)
          /\ \/ c = "done"
             \/ c = "WriteEnd" /\ s = [session[Session(r)] EXCEPT
                                         !.status = "completed",
                                         !.cost = Amount(r)]
    BY <1>10 DEF ReadEnd, Return
  <2>3. session[Session(r)].status # "none"
    BY <1>10, <1>a DEF ReadEnd, CopyInv, Named, UsageCalls
  <2>4. c = "WriteEnd" => s.status = "completed"
                          /\ s.pda = session[Session(r)].pda
    BY <2>2, <1>a DEF SessionRow
  <2>5. CopyInv(r)'
    BY <2>1, <2>2, <2>3, <2>4, <1>a, <1>b DEF CopyInv, Named, Unborn, Made,
       Copied, Escrowed, OpeningCalls, UsageCalls, EscrowBehindSession
  <2> QED
    BY <2>1, <2>2, <2>5, <1>d, SameTables, SessionMove
<1>11. ASSUME NEW r \in Requests, WriteEnd(r) PROVE SessionInv'
  <2>1. UNCHANGED <<records, job>>
    BY <1>11 DEF WriteEnd, covenantVars
  <2>2. PICK c, w, s : Step(r, c, w, s) /\ c \in {"SubmitEscrow", "ReadPay"}
    BY <1>11 DEF WriteEnd, Goto
  <2>3. \A s1 \in Sessions :
          session'[s1] = IF s1 = Session(r) THEN ls[r] ELSE session[s1]
    BY <1>11, <1>a DEF WriteEnd, PutSession, TypeOK, TablesOK
  <2>4. /\ session[Session(r)].status # "none" /\ ls[r].status = "completed"
        /\ CovenantEnabled => ls[r].pda /\ job[Session(r)] # "none"
    BY <1>11, <1>a DEF WriteEnd, CopyInv, Named, Copied, Escrowed, UsageCalls
  <2>5. CopyInv(r)'
    BY <2>2, <1>c DEF SessionCalls, OpeningCalls, UsageCalls
  <2>6. \A q \in Requests \ {r} : Harmless(q)
    BY <2>1, <2>3, <2>4 DEF Harmless, TypeOK, TablesOK
  <2>7. EscrowBehindSession'
    BY <2>1, <2>3, <2>4, <1>a DEF EscrowBehindSession
  <2>8. CostMetered'
    BY <2>1, <2>3, <2>4, <1>a DEF CostMetered
  <2> QED
    BY <2>2, <2>5, <2>6, <2>7, <2>8, SessionMove
<1>12. ASSUME NEW r \in Requests, SubmitEscrow(r) \/ Dispute(r)
       PROVE  SessionInv'
  <2>1. UNCHANGED <<session, records>>
    BY <1>12 DEF SubmitEscrow, Dispute, rows
  <2>2. \E landed, reported \in BOOLEAN :
          \/ SubmitWork(Session(r), landed, reported)
          \/ RaiseDispute(Session(r), landed, reported)
    BY <1>12 DEF SubmitEscrow, Dispute
  <2>3. \A s \in Sessions : job[s] # "none" => job'[s] # "none"
    BY <2>2, <1>a, EscrowForward DEF TypeOK
  <2>4. PICK c, w, s : Step(r, c, w, s) /\ c \in {"IndexSubmit", "ReadPay", "done"}
    BY <1>12 DEF SubmitEscrow, Dispute, Goto, Return
  <2>5. CopyInv(r)'
    BY <2>4, <1>c DEF SessionCalls, OpeningCalls, UsageCalls
  <2> QED
    BY <2>1, <2>3, <2>4, <2>5, <1>d, SameSessions, SessionMove
<1>13. ASSUME NEW r \in Requests, Arrive(r) PROVE SessionInv'
  <2>1. PICK o \in AllOps, u \in Users, s \in Sessions, a \in Int :
          /\ Receive(r, o, u, s, a)
          /\ o \in {"usage", "end"} => session[s].status # "none"
    BY <1>13, BillingAssumption DEF Arrive, AllOps, TypeOK, TablesOK, SessionRow
  <2>2. UNCHANGED <<session, records, job>>
    BY <2>1 DEF Receive, rows, covenantVars
  <2>3. /\ pc[r] = "idle" /\ pc'[r] = Entry[o] /\ Session(r)' = s
        /\ \A q \in Requests \ {r} :
             pc'[q] = pc[q] /\ ls'[q] = ls[q] /\ arg'[q] = arg[q]
    BY <2>1 DEF Receive, TypeOK, HandlersOK, Session
  <2>4. session[r].status = "none"
    BY <2>3, <1>a DEF CopyInv, Unborn
  <2>5. CopyInv(r)'
    BY <2>1, <2>2, <2>3, <2>4 DEF CopyInv, Named, Unborn, Made, Copied,
       Escrowed, OpeningCalls, UsageCalls, Entry, AllOps
  <2>6. \A q \in Requests \ {r} : CopyInv(q)'
    BY <2>2, <2>3, <1>a, SameTables, Undisturbing
  <2> QED
    BY <2>2, <2>5, <2>6, <1>d DEF SessionInv
<1>14. CASE Crash
  <2>1. UNCHANGED <<session, records, job>>
    BY <1>14 DEF Crash, rows, covenantVars
  <2>2. ASSUME NEW q \in Requests PROVE CopyInv(q)'
    <3>1. pc'[q] \in {"idle", "done"} /\ (pc'[q] = "idle" => pc[q] = "idle")
      BY <1>14 DEF Crash, Running, TypeOK, HandlersOK, Calls
    <3> QED
      BY <2>1, <3>1, <1>a DEF CopyInv, Named, Unborn, Made, Copied, Escrowed,
         OpeningCalls, UsageCalls
  <2> QED
    BY <2>1, <2>2, <1>d DEF SessionInv
<1>15. ASSUME UNCHANGED <<rows, local, covenantVars>> PROVE SessionInv'
  <2>1. UNCHANGED <<session, records, job>>
    BY <1>15 DEF rows, covenantVars
  <2>2. \A q \in Requests : CopyInv(q)'
    BY <2>1, <1>15, <1>a, SameTables, Undisturbing DEF local
  <2> QED
    BY <2>1, <2>2, <1>d DEF SessionInv
<1> QED
  BY <1>1, <1>2, <1>3, <1>4, <1>5, <1>6, <1>7, <1>8, <1>9, <1>10, <1>11,
     <1>12, <1>13, <1>14, <1>15, SessionSteps DEF ChainDeposit, vars

LEMMA SessionInit == Init => SessionInv
<1> SUFFICES ASSUME Init PROVE SessionInv
  OBVIOUS
<1>1. \A r \in Requests : pc[r] = "idle" /\ session[r].status = "none"
  BY DEF Init, Sessions, NoSession
<1>2. \A r \in Requests : CopyInv(r)
  BY <1>1 DEF CopyInv, Named, Unborn, Made, Copied, Escrowed, OpeningCalls,
     UsageCalls
<1> QED
  BY <1>1, <1>2, TypeInit DEF SessionInv, EscrowBehindSession, CostMetered,
     Sessions

(* No lost transaction, failed index, overlap or crash leaves a session    *)
(* row without its escrow, for any number of requests.                     *)
THEOREM EscrowBehindSessionCorrect == Spec => []EscrowBehindSession
<1>1. SessionInv => EscrowBehindSession
  BY DEF SessionInv
<1> QED
  BY <1>1, SessionInit, SessionStep, PTL DEF Spec

-----------------------------------------------------------------------------
(* A handler's step stays within its operation or returns.                 *)

SameOp(c, d) ==
  /\ c \in UsageCalls <=> d \in UsageCalls
  /\ c \in EndCalls <=> d \in EndCalls
  /\ c \in SyncCalls <=> d \in SyncCalls

Continues(r) ==
  /\ Running(r)
  /\ \E c \in Calls \cup {"done"} :
       /\ \E w, s : Step(r, c, w, s)
       /\ c # "done" => SameOp(pc[r], c)

LEMMA HandlerContinues ==
  ASSUME NEW r \in Requests, Handler(r) \/ Fail(r)
  PROVE  Continues(r)
<1>1. ASSUME Running(r), NEW c \in Calls, Goto(r, c), SameOp(pc[r], c)
      PROVE  Continues(r)
  BY <1>1 DEF Goto, Continues
<1>2. ASSUME Running(r), Return(r) PROVE Continues(r)
  BY <1>2 DEF Return, Continues
<1>3. ASSUME Running(r), NEW c \in Calls, NEW w, NEW s, Step(r, c, w, s),
             SameOp(pc[r], c)
      PROVE  Continues(r)
  BY <1>3 DEF Continues
<1> DEFINE Plain == Calls \ (UsageCalls \cup EndCalls \cup SyncCalls)
<1>a. ASSUME NEW c, NEW d,
             \/ c \in Plain /\ d \in Plain
             \/ c \in UsageCalls /\ d \in UsageCalls
             \/ c \in EndCalls /\ d \in EndCalls
             \/ c \in SyncCalls /\ d \in SyncCalls
      PROVE  SameOp(c, d)
  BY <1>a DEF SameOp, UsageCalls, EndCalls, SyncCalls
<1>b. /\ {"CheckWallet", "CreateATA", "InsertWallet", "ConfirmDeposit",
          "ReadDeposit", "WriteDeposit", "DepositTxn", "DepositStatus",
          "ReadWithdraw", "WithdrawTxn", "Transfer", "WithdrawFailed",
          "WriteWithdraw", "WithdrawStatus", "ReadStart", "WriteLock",
          "OpenEscrow", "IndexEscrow", "InsertSession", "StartTxn",
          "ReadDispute", "Dispute"} \subseteq Plain
      /\ UsageCalls \cup EndCalls \cup SyncCalls \cup Plain \subseteq Calls
  BY DEF Calls, UsageCalls, EndCalls, SyncCalls
<1>c. \A x : x \in Plain \cup UsageCalls \cup EndCalls \cup SyncCalls =>
        (pc[r] = x => Running(r))
  BY <1>b DEF Running
<1> HIDE DEF Plain
<1>4. CASE CheckWallet(r) \/ CreateATA(r) \/ InsertWallet(r)
  BY <1>a, <1>b, <1>c, <1>1, <1>2, <1>3, <1>4 DEF CheckWallet, CreateATA,
     InsertWallet
<1>5. CASE ReadBalance(r) \/ TokenBalance(r) \/ SyncBalance(r)
  BY <1>a, <1>b, <1>c, <1>1, <1>2, <1>3, <1>5 DEF ReadBalance, TokenBalance,
     SyncBalance, SyncCalls
<1>6. CASE \/ ConfirmDeposit(r) \/ ReadDeposit(r) \/ WriteDeposit(r)
           \/ DepositTxn(r) \/ DepositStatus(r)
  BY <1>a, <1>b, <1>c, <1>1, <1>2, <1>3, <1>6 DEF ConfirmDeposit,
     ReadDeposit, WriteDeposit, DepositTxn, DepositStatus
<1>7. CASE \/ ReadWithdraw(r) \/ WithdrawTxn(r) \/ Transfer(r)
           \/ WithdrawFailed(r) \/ WriteWithdraw(r) \/ WithdrawStatus(r)
  BY <1>a, <1>b, <1>c, <1>1, <1>2, <1>3, <1>7 DEF ReadWithdraw, WithdrawTxn,
     Transfer, WithdrawFailed, WriteWithdraw, WithdrawStatus
<1>8. CASE \/ ReadStart(r) \/ WriteLock(r) \/ OpenEscrow(r) \/ IndexEscrow(r)
           \/ InsertSession(r) \/ StartTxn(r)
  BY <1>a, <1>b, <1>c, <1>1, <1>2, <1>3, <1>8 DEF ReadStart, WriteLock,
     OpenEscrow, IndexEscrow, InsertSession, StartTxn
<1>9. CASE \/ ReadUsage(r) \/ InsertUsage(r) \/ WriteUsage(r)
  BY <1>a, <1>b, <1>c, <1>1, <1>2, <1>3, <1>9 DEF ReadUsage, InsertUsage,
     WriteUsage, UsageCalls
<1>10. CASE \/ ReadEnd(r) \/ WriteEnd(r) \/ SubmitEscrow(r) \/ IndexSubmit(r)
            \/ ReadPay(r) \/ WritePay(r) \/ EndTxn(r)
  BY <1>a, <1>b, <1>c, <1>1, <1>2, <1>3, <1>10 DEF ReadEnd, WriteEnd,
     SubmitEscrow, IndexSubmit, ReadPay, WritePay, EndTxn, EndCalls
<1>11. CASE ReadDispute(r) \/ Dispute(r)
  BY <1>a, <1>b, <1>c, <1>1, <1>2, <1>3, <1>11 DEF ReadDispute, Dispute
<1>12. CASE Fail(r)
  BY <1>2, <1>12 DEF Fail, FailingCalls, Running
<1> QED
  BY <1>4, <1>5, <1>6, <1>7, <1>8, <1>9, <1>10, <1>11, <1>12 DEF Handler

LEMMA ContinuesMoves ==
  ASSUME TypeOK, NEW r \in Requests, Continues(r)
  PROVE  /\ \/ pc'[r] = "done"
            \/ pc'[r] \in Calls /\ SameOp(pc[r], pc'[r])
         /\ \A q \in Requests \ {r} :
              pc'[q] = pc[q] /\ ls'[q] = ls[q] /\ lw'[q] = lw[q]
         /\ arg' = arg /\ Running(r)
BY DEF Continues, Step, TypeOK, HandlersOK

(* A client's request, with what its handler then starts from.             *)
LEMMA Arrivals ==
  ASSUME TypeOK, NEW r \in Requests, Arrive(r)
  PROVE  \E o \in AllOps, u \in Users, s \in Sessions, a \in Int :
           /\ Receive(r, o, u, s, a)
           /\ pc[r] = "idle" /\ pc'[r] = Entry[o] /\ Entry[o] \in Calls
           /\ arg'[r].op = o /\ arg'[r].session = s
           /\ arg'[r].user = u /\ arg'[r].amount = a
           /\ \A q \in Requests \ {r} : pc'[q] = pc[q] /\ arg'[q] = arg[q]
           /\ UNCHANGED <<rows, chain, lw, ls, applied, moved, due, covenantVars>>
<1>1. PICK o \in AllOps, u \in Users, s \in Sessions, a \in Int :
        Receive(r, o, u, s, a)
  BY BillingAssumption DEF Arrive, AllOps, TypeOK, TablesOK, SessionRow,
     Sessions
<1>2. Entry[o] \in Calls
  BY DEF Entry, AllOps, Calls
<1> QED
  BY <1>1, <1>2 DEF Receive, TypeOK, HandlersOK

LEMMA OpStep == TypeOK /\ OpInv /\ [Next]_vars => OpInv'
<1> SUFFICES ASSUME TypeOK, OpInv, [Next]_vars PROVE OpInv'
  OBVIOUS
<1>1. ASSUME NEW r \in Requests, Handler(r) \/ Fail(r) PROVE OpInv'
  BY <1>1, HandlerContinues, ContinuesMoves DEF OpInv, Running, SameOp, Calls
<1>2. ASSUME NEW r \in Requests, Arrive(r) PROVE OpInv'
  <2>1. PICK o \in AllOps :
          /\ pc'[r] = Entry[o] /\ arg'[r].op = o
          /\ \A q \in Requests \ {r} : pc'[q] = pc[q] /\ arg'[q] = arg[q]
    BY <1>2, Arrivals
  <2>2. /\ Entry[o] \in UsageCalls <=> o = "usage"
        /\ Entry[o] \in EndCalls <=> o = "end"
        /\ Entry[o] \in SyncCalls <=> o = "balance"
    BY DEF Entry, AllOps, UsageCalls, EndCalls, SyncCalls
  <2> QED
    BY <2>1, <2>2 DEF OpInv, Running
<1>3. CASE Crash
  BY <1>3 DEF Crash, OpInv, Running, Calls
<1>4. ASSUME UNCHANGED local PROVE OpInv'
  BY <1>4 DEF local, OpInv, Running
<1> QED
  BY <1>1, <1>2, <1>3, <1>4 DEF Next, ChainDeposit, Quiet, vars

LEMMA SerialStep == TypeOK /\ SerialInv /\ [Next]_vars => SerialInv' /\ (serial' => serial)
<1> SUFFICES ASSUME TypeOK, SerialInv, [Next]_vars
             PROVE  SerialInv' /\ (serial' => serial)
  OBVIOUS
<1>1. ASSUME NEW r \in Requests, Handler(r) \/ Fail(r)
      PROVE  SerialInv' /\ (serial' => serial)
  <2>1. \A q \in Requests : Running(q)' => Running(q)
    BY <1>1, HandlerContinues, ContinuesMoves DEF Running, Calls
  <2>2. UNCHANGED serial
    <3>1. CASE \/ CheckWallet(r) \/ CreateATA(r) \/ InsertWallet(r)
               \/ ReadBalance(r) \/ TokenBalance(r) \/ SyncBalance(r)
               \/ ConfirmDeposit(r) \/ ReadDeposit(r) \/ WriteDeposit(r)
               \/ DepositTxn(r) \/ DepositStatus(r)
      BY <3>1 DEF CheckWallet, CreateATA, InsertWallet, ReadBalance,
         TokenBalance, SyncBalance, ConfirmDeposit, ReadDeposit, WriteDeposit,
         DepositTxn, DepositStatus, hist, Applied
    <3>2. CASE \/ ReadWithdraw(r) \/ WithdrawTxn(r) \/ Transfer(r)
               \/ WithdrawFailed(r) \/ WriteWithdraw(r) \/ WithdrawStatus(r)
               \/ ReadStart(r) \/ WriteLock(r) \/ OpenEscrow(r)
               \/ IndexEscrow(r) \/ InsertSession(r) \/ StartTxn(r)
      BY <3>2 DEF ReadWithdraw, WithdrawTxn, Transfer, WithdrawFailed,
         WriteWithdraw, WithdrawStatus, ReadStart, WriteLock, OpenEscrow,
         IndexEscrow, InsertSession, StartTxn, hist, Applied
    <3>3. CASE \/ ReadUsage(r) \/ InsertUsage(r) \/ WriteUsage(r)
               \/ ReadEnd(r) \/ WriteEnd(r) \/ SubmitEscrow(r)
               \/ IndexSubmit(r) \/ ReadPay(r) \/ WritePay(r) \/ EndTxn(r)
               \/ ReadDispute(r) \/ Dispute(r) \/ Fail(r)
      BY <3>3 DEF ReadUsage, InsertUsage, WriteUsage, ReadEnd, WriteEnd,
         SubmitEscrow, IndexSubmit, ReadPay, WritePay, EndTxn, ReadDispute,
         Dispute, Fail, hist, Applied
    <3> QED
      BY <1>1, <3>1, <3>2, <3>3 DEF Handler
  <2> QED
    BY <2>1, <2>2 DEF SerialInv
<1>2. ASSUME NEW r \in Requests, Arrive(r)
      PROVE  SerialInv' /\ (serial' => serial)
  <2>1. serial' = (serial /\ \A q \in Requests : ~Running(q))
    BY <1>2 DEF Arrive, Receive
  <2>2. \A q \in Requests \ {r} : pc'[q] = pc[q]
    BY <1>2, Arrivals
  <2> QED
    BY <2>1, <2>2 DEF SerialInv, Running
<1>3. CASE Crash
  BY <1>3 DEF Crash, SerialInv, Running, hist, Calls
<1>4. ASSUME UNCHANGED <<local, hist>> PROVE SerialInv' /\ (serial' => serial)
  BY <1>4 DEF local, hist, SerialInv, Running
<1> QED
  BY <1>1, <1>2, <1>3, <1>4 DEF Next, ChainDeposit, Quiet, vars

-----------------------------------------------------------------------------
(* What was ended stays ended.                                             *)

(* If nothing disturbs, no usage update runs beside an end.                *)
LEMMA NoUsageBeside ==
  ASSUME OpInv, SerialInv, Undisturbed, NEW q \in Requests, NEW r \in Requests,
         pc[q] \in UsageCalls, pc[r] \in EndCalls
  PROVE  FALSE
<1>1. Running(q) /\ Running(r) /\ q # r
  BY DEF UsageCalls, EndCalls, Running, Calls
<1>2. ~serial
  BY <1>1 DEF SerialInv
<1>3. pc[q] # "idle" /\ arg[q].op = "usage"
  BY <1>1 DEF OpInv, Running, Calls
<1> QED
  BY <1>2, <1>3 DEF Undisturbed, Never

LEMMA UndisturbedBefore ==
  ASSUME TypeOK, SerialInv, [Next]_vars, Undisturbed'
  PROVE  Undisturbed
BY NeverBefore, SerialStep DEF Undisturbed

(* The status of a session changes from none to active, when the row is    *)
(* inserted, and to completed, when it is ended.                           *)
LEMMA StatusMoves ==
  ASSUME SessionInv, OpInv, SerialInv, EndInv, Undisturbed, [Next]_vars,
         NEW s \in Sessions, session[s].status = "completed"
  PROVE  session'[s].status = "completed"
<1>0. TypeOK /\ Sessions = Requests
  BY DEF SessionInv, Sessions
<1>1. ASSUME NEW r \in Requests, InsertSession(r)
      PROVE  session'[s].status = "completed"
  <2>1. session[r].status = "none"
    BY <1>1 DEF InsertSession, SessionInv, CopyInv, Unborn, OpeningCalls
  <2> QED
    BY <1>0, <1>1, <2>1 DEF InsertSession, PutSession, TypeOK, TablesOK
<1>2. ASSUME NEW r \in Requests, WriteUsage(r)
      PROVE  session'[s].status = "completed"
  <2>1. ls[r].status = session[Session(r)].status
    BY <1>2 DEF WriteUsage, EndInv
  <2> QED
    BY <1>0, <1>2, <2>1 DEF WriteUsage, PutSession, TypeOK, TablesOK
<1>3. ASSUME NEW r \in Requests, WriteEnd(r)
      PROVE  session'[s].status = "completed"
  <2>1. ls[r].status = "completed"
    BY <1>3 DEF WriteEnd, SessionInv, CopyInv, Copied
  <2> QED
    BY <1>0, <1>3, <2>1 DEF WriteEnd, PutSession, TypeOK, TablesOK
<1>4. ASSUME NEW r \in Requests,
             \/ ReadStart(r) \/ WriteLock(r) \/ OpenEscrow(r) \/ IndexEscrow(r)
             \/ ReadUsage(r) \/ InsertUsage(r) \/ ReadEnd(r) \/ SubmitEscrow(r)
             \/ Dispute(r)
      PROVE  UNCHANGED session
  BY <1>4 DEF ReadStart, WriteLock, OpenEscrow, IndexEscrow, ReadUsage,
     InsertUsage, ReadEnd, SubmitEscrow, Dispute, rows
<1>5. ASSUME NEW r \in Requests, Arrive(r) PROVE UNCHANGED session
  BY <1>5, <1>0, Arrivals DEF rows
<1> QED
  BY <1>1, <1>2, <1>3, <1>4, <1>5, SessionSteps, ElsewhereMoves DEF Crash,
     ChainDeposit, rows, vars

(* A step of request r on its way through EndRentalSession, elsewhere.     *)
LEMMA ElsewhereEnding ==
  ASSUME NEW r \in Requests, Elsewhere(r), pc[r] \in {"ReadEnd", "WriteEnd"}
  PROVE  Fail(r)
<1>1. ~ \/ CheckWallet(r) \/ CreateATA(r) \/ InsertWallet(r)
        \/ ReadBalance(r) \/ TokenBalance(r) \/ SyncBalance(r)
        \/ ConfirmDeposit(r) \/ ReadDeposit(r) \/ WriteDeposit(r)
        \/ DepositTxn(r) \/ DepositStatus(r)
  BY DEF CheckWallet, CreateATA, InsertWallet, ReadBalance, TokenBalance,
     SyncBalance, ConfirmDeposit, ReadDeposit, WriteDeposit, DepositTxn,
     DepositStatus
<1>2. ~ \/ ReadWithdraw(r) \/ WithdrawTxn(r) \/ Transfer(r)
        \/ WithdrawFailed(r) \/ WriteWithdraw(r) \/ WithdrawStatus(r)
        \/ StartTxn(r) \/ IndexSubmit(r) \/ ReadPay(r) \/ WritePay(r)
        \/ EndTxn(r) \/ ReadDispute(r)
  BY DEF ReadWithdraw, WithdrawTxn, Transfer, WithdrawFailed, WriteWithdraw,
     WithdrawStatus, StartTxn, IndexSubmit, ReadPay, WritePay, EndTxn,
     ReadDispute
<1> QED
  BY <1>1, <1>2 DEF Elsewhere

(* The parts of EndInv about a handler, for one request.                   *)
HandlerEnded(r) ==
  /\ pc[r] \in {"InsertUsage", "WriteUsage"} =>
       ls[r].status = session[Session(r)].status
  /\ pc[r] \in EndCalls \ {"ReadEnd", "WriteEnd"} =>
       session[Session(r)].status = "completed"

EscrowEnded ==
  \A s \in Sessions :
    job[s] \in {"delivered", "disputed"} => session[s].status = "completed"

LEMMA EndStep ==
  SessionInv /\ OpInv /\ SerialInv /\ EndInv /\ [Next]_vars => EndInv'
<1> SUFFICES ASSUME SessionInv, OpInv, SerialInv, EndInv, [Next]_vars,
                    Undisturbed'
             PROVE  EscrowEnded' /\ \A r \in Requests : HandlerEnded(r)'
  BY DEF EndInv, EscrowEnded, HandlerEnded
<1>0. TypeOK /\ TypeOK' /\ Undisturbed /\ Sessions = Requests /\ Jobs = Requests
  BY UndisturbedBefore, TypeStep, BillingAssumption DEF SessionInv, Sessions
<1> USE <1>0
<1>a. EscrowEnded /\ \A r \in Requests : HandlerEnded(r)
  BY DEF EndInv, EscrowEnded, HandlerEnded
<1>b. ASSUME NEW r \in Requests
      PROVE  Session(r) \in Requests /\ CopyInv(r) /\ ls[r] \in SessionRow
             /\ session[Session(r)] \in SessionRow /\ Amount(r) \in Int
  BY ArgTypes DEF TypeOK, SessionInv, HandlersOK, TablesOK
<1>c. ASSUME NEW r \in Requests, NEW c, NEW w, NEW s, Step(r, c, w, s)
      PROVE  /\ pc'[r] = c /\ ls'[r] = s
             /\ \A q \in Requests : Session(q)' = Session(q)
             /\ \A q \in Requests \ {r} : pc'[q] = pc[q] /\ ls'[q] = ls[q]
  BY <1>c DEF Step, TypeOK, HandlersOK, Session
<1>d. \A s \in Sessions :
        session[s].status = "completed" => session'[s].status = "completed"
  BY StatusMoves
(* A bystander is not disturbed by a step that leaves statuses alone.      *)
<1>e. ASSUME NEW q \in Requests, pc'[q] = pc[q], ls'[q] = ls[q],
             Session(q)' = Session(q),
             pc[q] \in UsageCalls =>
               session'[Session(q)].status = session[Session(q)].status
      PROVE  HandlerEnded(q)'
  BY <1>a, <1>b, <1>d, <1>e DEF HandlerEnded, UsageCalls
<1>1. ASSUME NEW r \in Requests, Elsewhere(r)
      PROVE  EscrowEnded' /\ \A q \in Requests : HandlerEnded(q)'
  <2>1. PICK c, w, s : c \notin SessionCalls /\ Step(r, c, w, s)
    BY <1>1, ElsewhereMoves DEF MovesElsewhere
  <2>2. UNCHANGED <<session, job>>
    BY <1>1, ElsewhereMoves
  <2>3. HandlerEnded(r)'
    <3>1. CASE c \in EndCalls
      <4>1. pc[r] \in EndCalls
        BY <1>1, <2>1, <3>1, <1>c, HandlerContinues, ContinuesMoves DEF
           Elsewhere, Handler, SameOp, EndCalls
      <4>2. pc[r] \notin {"ReadEnd", "WriteEnd"}
        BY <1>1, <2>1, <3>1, <1>c, ElsewhereEnding DEF Fail, Return, EndCalls
      <4> QED
        BY <2>1, <2>2, <3>1, <4>1, <4>2, <1>a, <1>c DEF HandlerEnded,
           SessionCalls, UsageCalls
    <3>2. CASE c \notin EndCalls
      BY <2>1, <3>2, <1>c DEF HandlerEnded, SessionCalls, UsageCalls
    <3> QED
      BY <3>1, <3>2
  <2>4. \A q \in Requests \ {r} : HandlerEnded(q)'
    BY <2>1, <2>2, <1>c, <1>e
  <2> QED
    BY <2>2, <2>3, <2>4, <1>a DEF EscrowEnded
<1>2. ASSUME NEW r \in Requests,
             \/ ReadStart(r) \/ WriteLock(r) \/ IndexEscrow(r) \/ ReadEnd(r)
             \/ ReadUsage(r) \/ InsertUsage(r)
      PROVE  EscrowEnded' /\ \A q \in Requests : HandlerEnded(q)'
  <2>1. UNCHANGED <<session, job>>
    BY <1>2 DEF ReadStart, WriteLock, IndexEscrow, ReadEnd, ReadUsage,
       InsertUsage, rows, covenantVars
  <2>2. PICK c, w, s :
          /\ Step(r, c, w, s)
          /\ \/ c \notin UsageCalls \cup (EndCalls \ {"ReadEnd", "WriteEnd"})
             \/ c \in UsageCalls /\ s.status = session[Session(r)].status
    <3>1. CASE ReadStart(r) \/ WriteLock(r) \/ IndexEscrow(r) \/ ReadEnd(r)
      BY <3>1 DEF ReadStart, WriteLock, IndexEscrow, ReadEnd, Goto, Return,
         UsageCalls, EndCalls
    <3>2. CASE ReadUsage(r)
      BY <3>2 DEF ReadUsage, UsageCalls
    <3>3. CASE InsertUsage(r)
      <4>1. Metered(ls[r], Amount(r)).status = session[Session(r)].status
        BY <3>3, <1>a, <1>b DEF InsertUsage, HandlerEnded, Metered, SessionRow
      <4> QED
        BY <3>3, <4>1 DEF InsertUsage, Return, UsageCalls, EndCalls
    <3> QED
      BY <1>2, <3>1, <3>2, <3>3
  <2>3. HandlerEnded(r)'
    BY <2>1, <2>2, <1>c DEF HandlerEnded, UsageCalls, EndCalls
  <2>4. \A q \in Requests \ {r} : HandlerEnded(q)'
    BY <2>1, <2>2, <1>c, <1>e
  <2> QED
    BY <2>1, <2>3, <2>4, <1>a DEF EscrowEnded
<1>3. ASSUME NEW r \in Requests, InsertSession(r)
      PROVE  EscrowEnded' /\ \A q \in Requests : HandlerEnded(q)'
  <2>1. UNCHANGED job /\ Step(r, "StartTxn", lw[r], ls[r])
    BY <1>3 DEF InsertSession, covenantVars, Goto
  <2>2. \A s \in Sessions : s # r => session'[s] = session[s]
    BY <1>3 DEF InsertSession, PutSession, TypeOK, TablesOK
  <2>3. session[r].status = "none"
    BY <1>3, <1>b DEF InsertSession, CopyInv, Unborn, OpeningCalls
  <2>4. HandlerEnded(r)'
    BY <2>1, <1>c DEF HandlerEnded, EndCalls
  <2>5. ASSUME NEW q \in Requests \ {r} PROVE HandlerEnded(q)'
    <3>1. pc[q] \in UsageCalls => Session(q) # r
      BY <2>3, <1>b DEF CopyInv, Named
    <3> QED
      BY <2>1, <2>2, <3>1, <1>b, <1>c, <1>e
  <2> QED
    BY <2>1, <2>4, <2>5, <1>a, <1>d DEF EscrowEnded
<1>4. ASSUME NEW r \in Requests, WriteUsage(r)
      PROVE  EscrowEnded' /\ \A q \in Requests : HandlerEnded(q)'
  <2>1. UNCHANGED job /\ Step(r, "done", EmptyRow, NoSession)
    BY <1>4 DEF WriteUsage, covenantVars, Return
  <2>2. \A s \in Sessions : session'[s].status = session[s].status
    BY <1>4, <1>a, <1>b DEF WriteUsage, PutSession, TypeOK, TablesOK,
       HandlerEnded
  <2>3. HandlerEnded(r)'
    BY <2>1, <1>c DEF HandlerEnded, EndCalls
  <2>4. \A q \in Requests \ {r} : HandlerEnded(q)'
    BY <2>1, <2>2, <1>b, <1>c, <1>e
  <2> QED
    BY <2>1, <2>2, <2>3, <2>4, <1>a DEF EscrowEnded
<1>5. ASSUME NEW r \in Requests, WriteEnd(r)
      PROVE  EscrowEnded' /\ \A q \in Requests : HandlerEnded(q)'
  <2>1. UNCHANGED job /\ pc[r] \in EndCalls
    BY <1>5 DEF WriteEnd, covenantVars, EndCalls
  <2>2. PICK c : Step(r, c, lw[r], ls[r]) /\ c \in {"SubmitEscrow", "ReadPay"}
    BY <1>5 DEF WriteEnd, Goto
  <2>3. session'[Session(r)] = ls[r] /\ ls[r].status = "completed"
    BY <1>5, <1>b DEF WriteEnd, PutSession, TypeOK, TablesOK, CopyInv, Copied
  <2>4. HandlerEnded(r)'
    BY <2>2, <2>3, <1>c DEF HandlerEnded
  <2>5. ASSUME NEW q \in Requests \ {r} PROVE HandlerEnded(q)'
    BY <2>1, <2>2, <1>c, <1>e, NoUsageBeside
  <2> QED
    BY <2>1, <2>4, <2>5, <1>a, <1>d DEF EscrowEnded
<1>6. ASSUME NEW r \in Requests, OpenEscrow(r) \/ SubmitEscrow(r) \/ Dispute(r)
      PROVE  EscrowEnded' /\ \A q \in Requests : HandlerEnded(q)'
  <2>1. UNCHANGED session
    BY <1>6 DEF OpenEscrow, SubmitEscrow, Dispute, rows
  <2>2. PICK c, w, s :
          /\ Step(r, c, w, s)
          /\ \/ c \in {"IndexEscrow", "done"}
             \/ c \in {"IndexSubmit", "ReadPay"} /\ SubmitEscrow(r)
    BY <1>6 DEF OpenEscrow, SubmitEscrow, Dispute, Goto, Return
  <2>3. SubmitEscrow(r) => session[Session(r)].status = "completed"
    BY <1>a DEF SubmitEscrow, HandlerEnded, EndCalls
  <2>4. HandlerEnded(r)'
    BY <2>1, <2>2, <2>3, <1>c DEF HandlerEnded, EndCalls
  <2>5. \A q \in Requests \ {r} : HandlerEnded(q)'
    BY <2>1, <2>2, <1>c, <1>e
  <2>6. EscrowEnded'
    <3>1. CASE OpenEscrow(r)
      <4>1. \A j \in Sessions : job'[j] = job[j] \/ job'[j] = "accepted"
        BY <3>1 DEF OpenEscrow, CreateJob, SignAndSend, TypeOK, CovenantTypeOK
      <4> QED
        BY <2>1, <4>1, <1>a DEF EscrowEnded
    <3>2. CASE SubmitEscrow(r)
      <4>1. \A j \in Sessions : job'[j] = job[j] \/ j = Session(r)
        BY <3>2, <1>b DEF SubmitEscrow, SubmitWork, SignAndSend, TypeOK,
           CovenantTypeOK
      <4> QED
        BY <2>1, <2>3, <3>2, <4>1, <1>a DEF EscrowEnded
    <3>3. CASE Dispute(r)
      <4>1. \A j \in Sessions : job'[j] = job[j] \/ job[j] = "delivered"
        BY <3>3, <1>b DEF Dispute, RaiseDispute, SignAndSend, Send, TypeOK,
           CovenantTypeOK
      <4> QED
        BY <2>1, <4>1, <1>a DEF EscrowEnded
    <3> QED
      BY <1>6, <3>1, <3>2, <3>3
  <2> QED
    BY <2>4, <2>5, <2>6
<1>7. ASSUME NEW r \in Requests, Arrive(r)
      PROVE  EscrowEnded' /\ \A q \in Requests : HandlerEnded(q)'
  <2>1. PICK o \in AllOps :
          /\ pc'[r] = Entry[o]
          /\ \A q \in Requests \ {r} : pc'[q] = pc[q] /\ arg'[q] = arg[q]
          /\ UNCHANGED <<rows, ls, covenantVars>>
    BY <1>7, Arrivals
  <2>2. UNCHANGED <<session, job, ls>>
    BY <2>1 DEF rows, covenantVars
  <2>3. HandlerEnded(r)'
    BY <2>1 DEF HandlerEnded, Entry, AllOps, EndCalls
  <2>4. \A q \in Requests \ {r} : HandlerEnded(q)'
    BY <2>1, <2>2, <1>e DEF Session
  <2> QED
    BY <2>2, <2>3, <2>4, <1>a DEF EscrowEnded
<1>8. CASE Crash
  <2>1. UNCHANGED <<session, job>>
    BY <1>8 DEF Crash, rows, covenantVars
  <2>2. \A q \in Requests : pc'[q] \in {"idle", "done"}
    BY <1>8 DEF Crash, Running, TypeOK, HandlersOK
  <2> QED
    BY <2>1, <2>2, <1>a DEF EscrowEnded, HandlerEnded, EndCalls
<1>9. ASSUME UNCHANGED <<rows, local, covenantVars>>
      PROVE  EscrowEnded' /\ \A q \in Requests : HandlerEnded(q)'
  BY <1>9, <1>a DEF EscrowEnded, HandlerEnded, rows, local, covenantVars,
     Session
<1> QED
  BY <1>1, <1>2, <1>3, <1>4, <1>5, <1>6, <1>7, <1>8, <1>9, SessionSteps DEF
     ChainDeposit, vars

(* A session that was ended is not revived by later usage updates, nor by  *)
(* any overlap of other requests.                                          *)
THEOREM EndedStaysEndedCorrect == Spec => EndedStaysEnded
<1> DEFINE IInv == SessionInv /\ OpInv /\ SerialInv /\ EndInv
           Kept == Undisturbed =>
                     \A s \in Sessions : session[s].status = "completed" =>
                                           session'[s].status = "completed"
<1>1. Init => IInv
  <2>1. Init => OpInv /\ SerialInv
    BY DEF Init, OpInv, SerialInv, Running, Calls
  <2>2. Init => EndInv
    BY BillingAssumption DEF Init, CovenantInit, EndInv, EndCalls
  <2> QED
    BY <2>1, <2>2, SessionInit
<1>2. IInv /\ [Next]_vars => IInv'
  BY SessionStep, OpStep, SerialStep, EndStep DEF SessionInv
<1>3. IInv /\ [Next]_vars => [Kept]_session
  BY StatusMoves
<1>4. EndedStaysEnded <=> [][Kept]_session
  BY DEF EndedStaysEnded, Undisturbed
<1> QED
  BY <1>1, <1>2, <1>3, <1>4, PTL DEF Spec

-----------------------------------------------------------------------------
(* The audit log.                                                          *)

LogCalls == {"Transfer", "DepositTxn", "DepositStatus", "WithdrawStatus"}

LEMMA AuditMove ==
  ASSUME TypeOK, AuditInv, NEW r \in Requests, NEW c, NEW w, NEW s,
         Step(r, c, w, s),
         \A q \in Requests \ {r} : txn'[q] = txn[q],
         applied \subseteq applied', moved' \subseteq moved \cup {r},
         r \in moved' => txn'[r] # "none",
         txn'[r] = "confirmed" => r \in applied',
         c = "Transfer" => txn'[r] # "none",
         c \in LogCalls \ {"Transfer"} => r \in applied'
  PROVE  AuditInv'
<1>1. /\ pc'[r] = c
      /\ \A q \in Requests \ {r} : pc'[q] = pc[q]
  BY DEF Step, TypeOK, HandlersOK
<1>2. moved \subseteq Requests
  BY DEF TypeOK, HistoryOK
<1>3. PaymentsAudited'
  BY <1>2 DEF AuditInv, PaymentsAudited
<1> QED
  BY <1>1, <1>3 DEF AuditInv, LogCalls

(* The handlers' calls that log nothing and move no tokens.                *)
Unlogged(r) ==
  \/ CheckWallet(r) \/ CreateATA(r) \/ InsertWallet(r)
  \/ ReadBalance(r) \/ TokenBalance(r) \/ SyncBalance(r)
  \/ ConfirmDeposit(r) \/ ReadDeposit(r) \/ ReadWithdraw(r)
  \/ ReadStart(r) \/ WriteLock(r) \/ OpenEscrow(r) \/ IndexEscrow(r)
  \/ InsertSession(r) \/ ReadUsage(r) \/ InsertUsage(r) \/ WriteUsage(r)
  \/ ReadEnd(r) \/ WriteEnd(r) \/ SubmitEscrow(r) \/ IndexSubmit(r)
  \/ ReadPay(r) \/ ReadDispute(r) \/ Dispute(r) \/ Fail(r)

LEMMA UnloggedMoves ==
  ASSUME NEW r \in Requests, Unlogged(r)
  PROVE  /\ UNCHANGED <<txn, applied, moved, due>>
         /\ \E c, w, s : c \notin LogCalls /\ Step(r, c, w, s)
<1> DEFINE Moves == \E c, w, s : c \notin LogCalls /\ Step(r, c, w, s)
<1>1. ASSUME NEW c, c \notin LogCalls, Goto(r, c) PROVE Moves
  BY <1>1 DEF Goto
<1>2. ASSUME Return(r) PROVE Moves
  BY <1>2 DEF Return, LogCalls
<1>3. ASSUME NEW c, c \notin LogCalls, NEW w, NEW s, Step(r, c, w, s)
      PROVE  Moves
  BY <1>3
<1> SUFFICES UNCHANGED <<txn, applied, moved, due>> /\ Moves
  OBVIOUS
<1> HIDE DEF Moves
<1>4. CASE \/ CheckWallet(r) \/ CreateATA(r) \/ InsertWallet(r)
           \/ ReadBalance(r) \/ TokenBalance(r) \/ SyncBalance(r)
           \/ ConfirmDeposit(r) \/ ReadDeposit(r) \/ ReadWithdraw(r)
  BY <1>1, <1>2, <1>3, <1>4 DEF CheckWallet, CreateATA, InsertWallet,
     ReadBalance, TokenBalance, SyncBalance, ConfirmDeposit, ReadDeposit,
     ReadWithdraw, LogCalls, rows, hist
<1>5. CASE \/ ReadStart(r) \/ WriteLock(r) \/ OpenEscrow(r) \/ IndexEscrow(r)
           \/ InsertSession(r) \/ ReadUsage(r) \/ InsertUsage(r)
           \/ WriteUsage(r)
  BY <1>1, <1>2, <1>3, <1>5 DEF ReadStart, WriteLock, OpenEscrow, IndexEscrow,
     InsertSession, ReadUsage, InsertUsage, WriteUsage, LogCalls, rows, hist
<1>6. CASE \/ ReadEnd(r) \/ WriteEnd(r) \/ SubmitEscrow(r) \/ IndexSubmit(r)
           \/ ReadPay(r) \/ ReadDispute(r) \/ Dispute(r) \/ Fail(r)
  BY <1>1, <1>2, <1>3, <1>6 DEF ReadEnd, WriteEnd, SubmitEscrow, IndexSubmit,
     ReadPay, ReadDispute, Dispute, Fail, LogCalls, rows, hist
<1> QED
  BY <1>4, <1>5, <1>6 DEF Unlogged

(* Next, with the steps that change a balance, log or move tokens apart.   *)
LEMMA LogSteps ==
  ASSUME [Next]_vars
  PROVE  \/ \E r \in Requests : Unlogged(r)
         \/ \E r \in Requests :
              \/ WriteDeposit(r) \/ DepositTxn(r) \/ DepositStatus(r)
              \/ WithdrawTxn(r) \/ Transfer(r) \/ WithdrawFailed(r)
              \/ WriteWithdraw(r) \/ WithdrawStatus(r)
              \/ StartTxn(r) \/ WritePay(r) \/ EndTxn(r)
         \/ \E r \in Requests : Arrive(r)
         \/ Crash
         \/ \E u \in Users : ChainDeposit(u)
         \/ UNCHANGED vars
BY DEF Next, Handler, Quiet, Unlogged

LEMMA AuditStep == TypeOK /\ AuditInv /\ [Next]_vars => AuditInv'
<1> SUFFICES ASSUME TypeOK, AuditInv, [Next]_vars PROVE AuditInv'
  OBVIOUS
<1>a. ASSUME NEW r \in Requests
      PROVE  /\ pc[r] = "Transfer" => txn[r] # "none"
             /\ pc[r] \in {"DepositTxn", "DepositStatus", "WithdrawStatus"} =>
                  r \in applied
             /\ r \in moved => txn[r] # "none"
             /\ txn[r] = "confirmed" => r \in applied
  BY DEF AuditInv, PaymentsAudited
<1>b. ASSUME NEW r \in Requests, NEW st, PutTransaction(r, st)
      PROVE  txn'[r] = st /\ \A q \in Requests \ {r} : txn'[q] = txn[q]
  BY <1>b DEF PutTransaction, TypeOK, TablesOK
<1>1. ASSUME NEW r \in Requests, Unlogged(r) PROVE AuditInv'
  BY <1>1, <1>a, UnloggedMoves, AuditMove DEF LogCalls
<1>2. ASSUME NEW r \in Requests, WriteDeposit(r) PROVE AuditInv'
  BY <1>2, <1>a, AuditMove DEF WriteDeposit, Applied, Goto, LogCalls
<1>3. ASSUME NEW r \in Requests, DepositTxn(r) PROVE AuditInv'
  BY <1>3, <1>a, <1>b, AuditMove DEF DepositTxn, hist, Goto, Return, LogCalls
<1>4. ASSUME NEW r \in Requests, DepositStatus(r) PROVE AuditInv'
  BY <1>4, <1>a, <1>b, AuditMove DEF DepositStatus, hist, Return, LogCalls
<1>5. ASSUME NEW r \in Requests, WithdrawTxn(r) PROVE AuditInv'
  BY <1>5, <1>a, <1>b, AuditMove DEF WithdrawTxn, hist, Goto, Return, LogCalls
<1>6. ASSUME NEW r \in Requests, Transfer(r) PROVE AuditInv'
  <2>1. UNCHANGED <<txn, applied>> /\ moved' \subseteq moved \cup {r}
    BY <1>6 DEF Transfer, rows
  <2>2. PICK c, w, s : /\ Step(r, c, w, s)
                       /\ c \in {"WithdrawFailed", "done", "WriteWithdraw"}
    BY <1>6 DEF Transfer, Goto, Return
  <2>3. txn[r] # "none"
    BY <1>6, <1>a DEF Transfer
  <2> QED
    BY <2>1, <2>2, <2>3, <1>a, AuditMove DEF LogCalls
<1>7. ASSUME NEW r \in Requests, WithdrawFailed(r) PROVE AuditInv'
  BY <1>7, <1>a, <1>b, AuditMove DEF WithdrawFailed, hist, Return, LogCalls
<1>8. ASSUME NEW r \in Requests, WriteWithdraw(r) PROVE AuditInv'
  BY <1>8, <1>a, AuditMove DEF WriteWithdraw, Applied, Goto, LogCalls
<1>9. ASSUME NEW r \in Requests, WithdrawStatus(r) PROVE AuditInv'
  BY <1>9, <1>a, <1>b, AuditMove DEF WithdrawStatus, hist, Return, LogCalls
<1>10. ASSUME NEW r \in Requests, StartTxn(r) PROVE AuditInv'
  BY <1>10, <1>a, <1>b, AuditMove DEF StartTxn, hist, Return, LogCalls
<1>11. ASSUME NEW r \in Requests, WritePay(r) PROVE AuditInv'
  BY <1>11, <1>a, AuditMove DEF WritePay, Applied, Goto, LogCalls
<1>12. ASSUME NEW r \in Requests, EndTxn(r) PROVE AuditInv'
  BY <1>12, <1>a, <1>b, AuditMove DEF EndTxn, hist, Return, LogCalls
<1>13. ASSUME NEW r \in Requests, Arrive(r) PROVE AuditInv'
  <2>1. PICK o \in AllOps :
          /\ pc'[r] = Entry[o] /\ \A q \in Requests \ {r} : pc'[q] = pc[q]
          /\ UNCHANGED <<rows, applied, moved>>
    BY <1>13, Arrivals
  <2>2. Entry[o] \notin LogCalls
    BY DEF Entry, AllOps, LogCalls
  <2> QED
    BY <2>1, <2>2 DEF AuditInv, PaymentsAudited, rows, LogCalls
<1>14. CASE Crash
  <2>1. \A q \in Requests : pc'[q] \in {"idle", "done"}
    BY <1>14 DEF Crash, Running, TypeOK, HandlersOK
  <2> QED
    BY <1>14, <2>1 DEF Crash, AuditInv, PaymentsAudited, rows, hist
<1>15. ASSUME UNCHANGED <<rows, local, hist>> PROVE AuditInv'
  BY <1>15 DEF AuditInv, PaymentsAudited, rows, local, hist
<1> QED
  BY <1>1, <1>2, <1>3, <1>4, <1>5, <1>6, <1>7, <1>8, <1>9, <1>10, <1>11,
     <1>12, <1>13, <1>14, <1>15, LogSteps DEF ChainDeposit, vars

-----------------------------------------------------------------------------
(* What is charged, and the balances.                                      *)

(* The three calls that apply an amount to a balance; no other handler's   *)
(* call changes what has been applied.                                     *)
Applies(r) == WriteDeposit(r) \/ WriteWithdraw(r) \/ WritePay(r)

LEMMA AppliedMoves ==
  ASSUME NEW r \in Requests, Handler(r) \/ Fail(r), ~Applies(r)
  PROVE  UNCHANGED <<applied, due>>
<1>1. CASE Unlogged(r)
  BY <1>1, UnloggedMoves
<1>2. CASE ~Unlogged(r)
  <2>1. \/ DepositTxn(r) \/ DepositStatus(r) \/ WithdrawTxn(r) \/ Transfer(r)
        \/ WithdrawFailed(r) \/ WithdrawStatus(r) \/ StartTxn(r) \/ EndTxn(r)
    BY <1>2 DEF Unlogged, Handler, Applies
  <2> QED
    BY <2>1 DEF DepositTxn, DepositStatus, WithdrawTxn, Transfer,
       WithdrawFailed, WithdrawStatus, StartTxn, EndTxn, hist
<1> QED
  BY <1>1, <1>2

(* The call that reads the session to be ended, and the last one of        *)
(* EndRentalSession.                                                       *)
LEMMA HandlerAtEnd ==
  ASSUME NEW r \in Requests, Handler(r), pc[r] \in {"ReadEnd", "EndTxn"}
  PROVE  ReadEnd(r) \/ EndTxn(r)
<1>1. ~ \/ CheckWallet(r) \/ CreateATA(r) \/ InsertWallet(r)
        \/ ReadBalance(r) \/ TokenBalance(r) \/ SyncBalance(r)
        \/ ConfirmDeposit(r) \/ ReadDeposit(r) \/ WriteDeposit(r)
        \/ DepositTxn(r) \/ DepositStatus(r)
  BY DEF CheckWallet, CreateATA, InsertWallet, ReadBalance, TokenBalance,
     SyncBalance, ConfirmDeposit, ReadDeposit, WriteDeposit, DepositTxn,
     DepositStatus
<1>2. ~ \/ ReadWithdraw(r) \/ WithdrawTxn(r) \/ Transfer(r)
        \/ WithdrawFailed(r) \/ WriteWithdraw(r) \/ WithdrawStatus(r)
        \/ ReadStart(r) \/ WriteLock(r) \/ OpenEscrow(r) \/ IndexEscrow(r)
        \/ InsertSession(r) \/ StartTxn(r)
  BY DEF ReadWithdraw, WithdrawTxn, Transfer, WithdrawFailed, WriteWithdraw,
     WithdrawStatus, ReadStart, WriteLock, OpenEscrow, IndexEscrow,
     InsertSession, StartTxn
<1>3. ~ \/ ReadUsage(r) \/ InsertUsage(r) \/ WriteUsage(r)
        \/ WriteEnd(r) \/ SubmitEscrow(r) \/ IndexSubmit(r)
        \/ ReadPay(r) \/ WritePay(r) \/ ReadDispute(r) \/ Dispute(r)
  BY DEF ReadUsage, InsertUsage, WriteUsage, WriteEnd, SubmitEscrow,
     IndexSubmit, ReadPay, WritePay, ReadDispute, Dispute
<1> QED
  BY <1>1, <1>2, <1>3 DEF Handler

(* ChargeInv, in parts: who was charged is known, their sessions are       *)
(* ended, and an end under way has not charged.                            *)
KnownInv == \A q \in applied : pc[q] # "idle"

Charged(q) == q \in applied /\ arg[q].op = "end"

ChargedEnded ==
  \A q \in Requests : Charged(q) => session[Session(q)].status = "completed"

PayCalls == EndCalls \ {"ReadEnd", "EndTxn"}

NotYetCharged ==
  \A r \in Requests : pc[r] \in PayCalls =>
    \A q \in Requests : Charged(q) => Session(q) # Session(r)

OneCharge ==
  \A q, r \in Requests :
    Charged(q) /\ Charged(r) /\ Session(q) = Session(r) => q = r

LEMMA ChargeParts ==
  ASSUME TypeOK
  PROVE  ChargeInv <=>
           KnownInv /\ (serial => ChargedEnded /\ NotYetCharged /\ OneCharge)
BY DEF TypeOK, HistoryOK, ChargeInv, ChargedOnce, KnownInv, ChargedEnded,
   NotYetCharged, OneCharge, Charged, PayCalls

LEMMA ChargeStep ==
  SessionInv /\ OpInv /\ SerialInv /\ EndInv /\ ChargeInv /\ [Next]_vars
    => ChargeInv'
<1> SUFFICES ASSUME SessionInv, OpInv, SerialInv, EndInv, ChargeInv, [Next]_vars
             PROVE  ChargeInv'
  OBVIOUS
<1>0. TypeOK /\ TypeOK' /\ KnownInv /\ Sessions = Requests
  BY TypeStep, ChargeParts DEF SessionInv, Sessions
<1> USE <1>0
<1>a. ASSUME KnownInv', serial' => ChargedEnded' /\ NotYetCharged' /\ OneCharge'
      PROVE  ChargeInv'
  <2>1. ChargeInv' <=>
           KnownInv' /\ (serial' => ChargedEnded' /\ NotYetCharged' /\ OneCharge')
    BY DEF TypeOK, HistoryOK, ChargeInv, ChargedOnce, KnownInv, ChargedEnded,
       NotYetCharged, OneCharge, Charged, PayCalls
  <2> QED
    BY <1>a, <2>1
<1>b. serial => ChargedEnded /\ NotYetCharged /\ OneCharge
  BY ChargeParts
<1>c. serial' => serial
  BY SerialStep
<1>d. serial => \A s \in Sessions :
        session[s].status = "completed" => session'[s].status = "completed"
  BY StatusMoves DEF Undisturbed
<1>e. \A r \in Requests : Session(r) \in Sessions
  BY ArgTypes DEF TypeOK
(* A step that applies nothing and changes no argument of who was charged. *)
<1>f. ASSUME serial, UNCHANGED applied,
             \A q \in applied : arg'[q] = arg[q]
      PROVE  /\ ChargedEnded' /\ OneCharge'
             /\ \A q \in Requests : Charged(q)' =>
                                      Charged(q) /\ Session(q)' = Session(q)
  BY <1>b, <1>d, <1>e, <1>f DEF ChargedEnded, OneCharge, Charged, Session
<1>1. ASSUME NEW r \in Requests, Handler(r) \/ Fail(r) PROVE ChargeInv'
  <2>0. /\ pc'[r] # "idle" /\ Running(r) /\ arg' = arg
        /\ \A q \in Requests \ {r} : pc'[q] = pc[q]
        /\ pc'[r] \in EndCalls => pc[r] \in EndCalls
        /\ \A q \in Requests : Session(q)' = Session(q)
    BY <1>1, HandlerContinues, ContinuesMoves DEF SameOp, Calls, EndCalls,
       Session
  <2>1. CASE ~Applies(r)
    <3>1. UNCHANGED applied
      BY <1>1, <2>1, AppliedMoves
    <3>2. KnownInv'
      BY <2>0, <3>1 DEF KnownInv, TypeOK, HistoryOK
    <3>3. ASSUME serial' PROVE NotYetCharged'
      <4>1. \A q \in Requests : Charged(q)' <=> Charged(q)
        BY <2>0, <3>1 DEF Charged
      <4>2. ASSUME pc'[r] \in PayCalls, NEW q \in Requests, Charged(q)
            PROVE  Session(q) # Session(r)
        <5>1. CASE pc[r] \in PayCalls
          BY <5>1, <4>2, <1>b, <1>c, <3>3 DEF NotYetCharged
        <5>2. CASE pc[r] \in {"ReadEnd", "EndTxn"}
          <6>1. ReadEnd(r) \/ EndTxn(r) \/ Fail(r)
            BY <1>1, <5>2, HandlerAtEnd
          <6>2. ~EndTxn(r) /\ ~Fail(r)
            BY <4>2, <2>0 DEF EndTxn, Fail, Return, Step, TypeOK, HandlersOK,
               PayCalls, EndCalls
          <6>3. session[Session(r)].status = "active"
            BY <6>1, <6>2, <4>2 DEF ReadEnd, Return, Step, TypeOK,
               HandlersOK, PayCalls, EndCalls
          <6> QED
            BY <6>3, <4>2, <1>b, <1>c, <3>3 DEF ChargedEnded
        <5> QED
          BY <2>0, <4>2, <5>1, <5>2 DEF PayCalls
      <4> QED
        BY <2>0, <4>1, <4>2, <1>b, <1>c, <3>3 DEF NotYetCharged
    <3> QED
      BY <2>0, <3>1, <3>2, <3>3, <1>a, <1>c, <1>f
  <2>2. CASE WriteDeposit(r) \/ WriteWithdraw(r)
    <3>1. /\ applied' = applied \cup {r} /\ pc[r] \notin EndCalls
          /\ UNCHANGED session
      BY <2>2 DEF WriteDeposit, WriteWithdraw, Applied, EndCalls
    <3>2. arg[r].op # "end"
      BY <2>0, <3>1 DEF OpInv
    <3>3. KnownInv'
      BY <2>0, <3>1 DEF KnownInv, TypeOK, HistoryOK
    <3>4. \A q \in Requests : Charged(q)' <=> Charged(q)
      BY <2>0, <3>1, <3>2 DEF Charged
    <3>5. serial' => ChargedEnded' /\ OneCharge' /\ NotYetCharged'
      BY <2>0, <3>1, <3>4, <1>b, <1>c DEF ChargedEnded, OneCharge,
         NotYetCharged, PayCalls
    <3> QED
      BY <3>3, <3>5, <1>a
  <2>3. CASE WritePay(r)
    <3>1. /\ applied' = applied \cup {r} /\ pc[r] = "WritePay"
          /\ UNCHANGED session
      BY <2>3 DEF WritePay, Applied
    <3>2. pc'[r] = "EndTxn"
      BY <2>3 DEF WritePay, Goto, Step, TypeOK, HandlersOK
    <3>3. KnownInv'
      BY <2>0, <3>1 DEF KnownInv, TypeOK, HistoryOK
    <3>4. \A q \in Requests : Charged(q)' => Charged(q) \/ q = r
      BY <2>0, <3>1 DEF Charged
    <3>5. ASSUME serial'
          PROVE  ChargedEnded' /\ OneCharge' /\ NotYetCharged'
      <4>1. session[Session(r)].status = "completed"
        BY <3>1, <3>5, <1>c DEF EndInv, Undisturbed, EndCalls
      <4>2. \A q \in Requests : Charged(q) => Session(q) # Session(r)
        BY <3>1, <3>5, <1>b, <1>c DEF NotYetCharged, PayCalls, EndCalls
      <4>3. \A q \in Requests : pc'[q] \notin PayCalls
        <5>1. \A q \in Requests \ {r} : ~Running(q)
          BY <2>0, <3>5, <1>c DEF SerialInv
        <5> QED
          BY <2>0, <3>2, <5>1 DEF Running, PayCalls, EndCalls, Calls
      <4>4. ChargedEnded'
        BY <2>0, <3>1, <3>4, <3>5, <4>1, <1>b, <1>c DEF ChargedEnded
      <4>5. OneCharge'
        BY <2>0, <3>4, <3>5, <4>2, <1>b, <1>c DEF OneCharge
      <4> QED
        BY <4>3, <4>4, <4>5 DEF NotYetCharged
    <3> QED
      BY <3>3, <3>5, <1>a
  <2> QED
    BY <2>1, <2>2, <2>3 DEF Applies
<1>2. ASSUME NEW r \in Requests, Arrive(r) PROVE ChargeInv'
  <2>1. PICK o \in AllOps :
          /\ pc[r] = "idle" /\ pc'[r] = Entry[o] /\ Entry[o] \in Calls
          /\ \A q \in Requests \ {r} : pc'[q] = pc[q] /\ arg'[q] = arg[q]
          /\ UNCHANGED applied
    BY <1>2, Arrivals
  <2>2. r \notin applied /\ \A q \in applied : q \in Requests /\ arg'[q] = arg[q]
    BY <2>1 DEF KnownInv, TypeOK, HistoryOK
  <2>3. KnownInv'
    BY <2>1, <2>2 DEF KnownInv, Calls
  <2>4. \A q \in Requests : pc'[q] \in PayCalls => pc[q] \in PayCalls /\ q # r
    BY <2>1 DEF PayCalls, EndCalls, Entry, AllOps
  <2>5. serial' => NotYetCharged'
    BY <2>1, <2>2, <2>4, <1>b, <1>c, <1>f DEF NotYetCharged, Session
  <2> QED
    BY <2>1, <2>2, <2>3, <2>5, <1>a, <1>c, <1>f
<1>3. CASE Crash
  <2>1. \A q \in Requests : /\ pc'[q] \in {"idle", "done"}
                            /\ pc[q] # "idle" => pc'[q] # "idle"
    BY <1>3 DEF Crash, Running, TypeOK, HandlersOK
  <2>2. UNCHANGED <<applied, arg>>
    BY <1>3 DEF Crash, hist
  <2>3. KnownInv' /\ NotYetCharged'
    BY <2>1, <2>2 DEF KnownInv, NotYetCharged, PayCalls, EndCalls, TypeOK,
       HistoryOK
  <2> QED
    BY <2>2, <2>3, <1>a, <1>c, <1>f
<1>4. ASSUME UNCHANGED <<rows, local, hist>> PROVE ChargeInv'
  BY <1>4 DEF ChargeInv, ChargedOnce, rows, local, hist, Session
<1> QED
  BY <1>1, <1>2, <1>3, <1>4 DEF Next, ChainDeposit, Quiet, vars

(* The handlers' calls that neither write a wallet nor hold one to write.  *)
HeldCalls == WritingCalls \cup {"TokenBalance", "SyncBalance"}

(* The calls of ProcessDeposit up to the one that writes the balance.      *)
DepositCalls == {"ConfirmDeposit", "ReadDeposit", "WriteDeposit"}

Walletless(r) ==
  \/ CheckWallet(r) \/ CreateATA(r) \/ ConfirmDeposit(r)
  \/ DepositTxn(r) \/ DepositStatus(r) \/ WithdrawFailed(r)
  \/ WithdrawStatus(r) \/ OpenEscrow(r) \/ IndexEscrow(r)
  \/ InsertSession(r) \/ StartTxn(r)
  \/ ReadUsage(r) \/ InsertUsage(r) \/ WriteUsage(r)
  \/ ReadEnd(r) \/ WriteEnd(r) \/ SubmitEscrow(r) \/ IndexSubmit(r)
  \/ EndTxn(r) \/ ReadDispute(r) \/ Dispute(r) \/ Fail(r)

LEMMA WalletlessMoves ==
  ASSUME NEW r \in Requests, Walletless(r)
  PROVE  /\ UNCHANGED <<wallets, wallet, due>>
         /\ \E c, w, s :
              /\ Step(r, c, w, s)
              /\ c \notin HeldCalls \cup {"idle"} /\ w \in {lw[r], EmptyRow}
              /\ w = lw[r] /\ w # EmptyRow => pc[r] # "WriteDeposit"
              /\ c \in DepositCalls => pc[r] \in DepositCalls
<1> DEFINE Moves == \E c, w, s :
                      /\ Step(r, c, w, s)
                      /\ c \notin HeldCalls \cup {"idle"} /\ w \in {lw[r], EmptyRow}
                      /\ w = lw[r] /\ w # EmptyRow => pc[r] # "WriteDeposit"
                      /\ c \in DepositCalls => pc[r] \in DepositCalls
<1>1. ASSUME NEW c, c \notin HeldCalls \cup {"idle"}, Goto(r, c), pc[r] # "WriteDeposit",
             c \in DepositCalls => pc[r] \in DepositCalls
      PROVE  Moves
  BY <1>1 DEF Goto
<1>2. ASSUME Return(r) PROVE Moves
  BY <1>2 DEF Return, HeldCalls, WritingCalls, DepositCalls
<1>3. ASSUME NEW c, c \notin HeldCalls \cup {"idle"}, NEW s, Step(r, c, lw[r], s),
             pc[r] # "WriteDeposit", c \notin DepositCalls
      PROVE  Moves
  BY <1>3
<1> SUFFICES UNCHANGED <<wallets, wallet, due>> /\ Moves
  OBVIOUS
<1> HIDE DEF Moves
<1> USE DEF HeldCalls, WritingCalls, DepositCalls
<1>4. CASE \/ CheckWallet(r) \/ CreateATA(r) \/ ConfirmDeposit(r)
           \/ DepositTxn(r) \/ DepositStatus(r) \/ WithdrawFailed(r)
           \/ WithdrawStatus(r)
  BY <1>1, <1>2, <1>3, <1>4 DEF CheckWallet, CreateATA, ConfirmDeposit,
     DepositTxn, DepositStatus, WithdrawFailed, WithdrawStatus, rows, hist
<1>5. CASE \/ OpenEscrow(r) \/ IndexEscrow(r) \/ InsertSession(r)
           \/ StartTxn(r) \/ ReadUsage(r) \/ InsertUsage(r) \/ WriteUsage(r)
  BY <1>1, <1>2, <1>3, <1>5 DEF OpenEscrow, IndexEscrow, InsertSession,
     StartTxn, ReadUsage, InsertUsage, WriteUsage, rows, hist
<1>6. CASE \/ ReadEnd(r) \/ WriteEnd(r) \/ SubmitEscrow(r) \/ IndexSubmit(r)
           \/ EndTxn(r) \/ ReadDispute(r) \/ Dispute(r) \/ Fail(r)
  BY <1>1, <1>2, <1>3, <1>6 DEF ReadEnd, WriteEnd, SubmitEscrow, IndexSubmit,
     EndTxn, ReadDispute, Dispute, Fail, rows, hist
<1> QED
  BY <1>4, <1>5, <1>6 DEF Walletless

LEMMA WalletSteps ==
  ASSUME [Next]_vars
  PROVE  \/ \E r \in Requests : Walletless(r)
         \/ \E r \in Requests :
              \/ InsertWallet(r) \/ ReadBalance(r) \/ TokenBalance(r)
              \/ SyncBalance(r) \/ ReadDeposit(r) \/ WriteDeposit(r)
              \/ ReadWithdraw(r) \/ WithdrawTxn(r) \/ Transfer(r)
              \/ WriteWithdraw(r) \/ ReadStart(r) \/ WriteLock(r)
              \/ ReadPay(r) \/ WritePay(r)
         \/ \E r \in Requests : Arrive(r)
         \/ Crash
         \/ \E u \in Users : ChainDeposit(u)
         \/ UNCHANGED vars
BY DEF Next, Handler, Quiet, Walletless

(* AccountInv, in parts.                                                   *)
RowsInv == \A u \in Users \ wallets : wallet[u].balance = 0

OwnersInv == \A r \in Requests : pc[r] \in HeldCalls => User(r) \in wallets

Alone == serial /\ Never("balance")

UpToDate(r) ==
  pc[r] \in WritingCalls =>
    lw[r].balance = wallet[User(r)].balance + Change(pc[r], Amount(r))

LEMMA AccountParts ==
  AccountInv <=>
    /\ RowsInv /\ OwnersInv
    /\ Alone => AccountingCorrect /\ \A r \in Requests : UpToDate(r)
BY DEF AccountInv, RowsInv, OwnersInv, Alone, UpToDate, HeldCalls

(* A step of request r keeps the accounting if it leaves rows, r's owner   *)
(* and r's own copy in order: if nothing overlaps, no other handler runs.  *)
LEMMA AccountMove ==
  ASSUME TypeOK, SerialInv, AccountInv, NEW r \in Requests, Running(r),
         NEW c, NEW w, NEW s, Step(r, c, w, s),
         Alone' => Alone, wallets \subseteq wallets', RowsInv',
         c \in HeldCalls => User(r) \in wallets',
         Alone => AccountingCorrect',
         Alone /\ c \in WritingCalls =>
           w.balance = wallet'[User(r)].balance + Change(c, Amount(r))
  PROVE  AccountInv'
<1>1. /\ pc'[r] = c /\ lw'[r] = w /\ arg' = arg
      /\ \A q \in Requests \ {r} : pc'[q] = pc[q]
  BY DEF Step, TypeOK, HandlersOK
<1>2. OwnersInv'
  BY <1>1, AccountParts DEF OwnersInv, User
<1>3. ASSUME Alone', NEW q \in Requests PROVE UpToDate(q)'
  <2>1. CASE q = r
    BY <2>1, <1>1, <1>3 DEF UpToDate, User, Amount
  <2>2. CASE q # r
    <3>1. ~Running(q)
      BY <2>2, <1>3 DEF SerialInv, Alone
    <3> QED
      BY <3>1, <2>2, <1>1 DEF UpToDate, Running, WritingCalls, Calls
  <2> QED
    BY <2>1, <2>2
<1> QED
  BY <1>2, <1>3 DEF AccountInv, RowsInv, OwnersInv, Alone, UpToDate, HeldCalls

LEMMA AccountStep ==
  TypeOK /\ OpInv /\ SerialInv /\ AccountInv /\ [Next]_vars => AccountInv'
<1> SUFFICES ASSUME TypeOK, OpInv, SerialInv, AccountInv, [Next]_vars
             PROVE  AccountInv'
  OBVIOUS
<1>0. TypeOK' /\ (Alone' => Alone) /\ RowsInv /\ OwnersInv
      /\ (Alone => AccountingCorrect /\ \A r \in Requests : UpToDate(r))
  BY TypeStep, SerialStep, NeverBefore, AccountParts DEF Alone
<1> USE <1>0
<1>a. ASSUME NEW r \in Requests
      PROVE  /\ User(r) \in Users /\ Amount(r) \in Int
             /\ lw[r] \in WalletRow /\ wallet[User(r)] \in WalletRow
             /\ lw[r].balance \in Int /\ wallet[User(r)].balance \in Int
             /\ pc[r] \in HeldCalls => User(r) \in wallets
             /\ Alone => UpToDate(r)
  BY ArgTypes DEF TypeOK, HandlersOK, TablesOK, WalletRow, OwnersInv
<1>b. UNCHANGED <<wallets, wallet>> => RowsInv'
  BY DEF RowsInv
<1>c. UNCHANGED <<wallet, due>> => (Alone => AccountingCorrect')
  BY DEF AccountingCorrect
<1>d. ASSUME NEW r \in Requests, UpdateWalletBalance(User(r), lw[r]),
             UNCHANGED wallets, pc[r] \in HeldCalls
      PROVE  /\ RowsInv'
             /\ wallet'[User(r)] = lw[r]
             /\ \A u \in Users : u # User(r) => wallet'[u] = wallet[u]
  BY <1>d, <1>a DEF UpdateWalletBalance, TypeOK, TablesOK, RowsInv
<1>e. ASSUME NEW r \in Requests, NEW x \in {Amount(r), 0 - Amount(r)},
             Applied(r, User(r), x)
      PROVE  /\ due'[User(r)] = due[User(r)] + x
             /\ \A u \in Users : u # User(r) => due'[u] = due[u]
  BY <1>e, <1>a DEF Applied, TypeOK, HistoryOK
<1>f. ASSUME NEW r \in Requests, Handler(r) \/ Fail(r) PROVE Running(r)
  BY <1>f, HandlerContinues DEF Continues
<1>g. \A u \in Users : wallet[u].balance \in Int /\ due[u] \in Int
  BY DEF TypeOK, TablesOK, HistoryOK, WalletRow
<1>1. ASSUME NEW r \in Requests, Walletless(r) PROVE AccountInv'
  <2>1. PICK c, w, s : c \notin HeldCalls /\ Step(r, c, w, s)
    BY <1>1, WalletlessMoves
  <2>2. UNCHANGED <<wallets, wallet, due>>
    BY <1>1, WalletlessMoves
  <2>3. Running(r)
    BY <1>1, <1>f DEF Walletless, Handler
  <2> QED
    BY <2>1, <2>2, <2>3, <1>b, <1>c, AccountMove DEF HeldCalls
<1>2. ASSUME NEW r \in Requests, InsertWallet(r) PROVE AccountInv'
  <2>1. Running(r) /\ Step(r, "done", EmptyRow, NoSession) /\ UNCHANGED due
    BY <1>2, <1>f DEF InsertWallet, Handler, Return, hist
  <2>2. wallets \subseteq wallets' /\ \A u \in Users : wallet'[u].balance =
        wallet[u].balance
    <3>1. User(r) \notin wallets => wallet[User(r)].balance = 0
      BY <1>a DEF RowsInv
    <3> QED
      BY <1>2, <1>a, <3>1 DEF InsertWallet, UpdateWalletBalance, EmptyRow,
         TypeOK, TablesOK
  <2>3. RowsInv' /\ (Alone => AccountingCorrect')
    BY <2>1, <2>2 DEF RowsInv, AccountingCorrect
  <2> QED
    BY <2>1, <2>2, <2>3, AccountMove DEF HeldCalls, WritingCalls
<1>3. ASSUME NEW r \in Requests,
             ReadBalance(r) \/ TokenBalance(r) \/ SyncBalance(r)
      PROVE  AccountInv'
  <2>1. Running(r) /\ pc[r] \in SyncCalls
    BY <1>3, <1>f DEF Handler, ReadBalance, TokenBalance, SyncBalance, SyncCalls
  <2>2. ~Alone
    BY <2>1 DEF OpInv, Alone, Never, Running, Calls
  <2>3. PICK c, w, s : /\ Step(r, c, w, s)
                       /\ c \in HeldCalls => User(r) \in wallets
    BY <1>3, <1>a DEF ReadBalance, TokenBalance, SyncBalance, Return,
       HeldCalls, WritingCalls
  <2>4. RowsInv' /\ UNCHANGED wallets
    BY <1>3, <1>b, <1>d DEF ReadBalance, TokenBalance, SyncBalance, rows,
       HeldCalls
  <2> QED
    BY <2>1, <2>2, <2>3, <2>4, AccountMove
<1>4. ASSUME NEW r \in Requests, ReadDeposit(r) PROVE AccountInv'
  <2>1. Running(r) /\ UNCHANGED <<wallets, wallet, due>>
    BY <1>4, <1>f DEF Handler, ReadDeposit, rows, hist
  <2>2. AddFunds(wallet[User(r)], Amount(r)).balance =
        wallet[User(r)].balance + Amount(r)
    BY <1>a DEF AddFunds, WalletRow
  <2>3. PICK c, w, s :
          /\ Step(r, c, w, s)
          /\ \/ c = "done"
             \/ /\ c = "WriteDeposit" /\ User(r) \in wallets
                /\ w = AddFunds(wallet[User(r)], Amount(r))
    BY <1>4 DEF ReadDeposit, Return
  <2> QED
    BY <2>1, <2>2, <2>3, <1>b, <1>c, AccountMove DEF HeldCalls, WritingCalls,
       Change
<1>5. ASSUME NEW r \in Requests, WriteDeposit(r) PROVE AccountInv'
  <2>1. Running(r) /\ Step(r, "DepositTxn", lw[r], ls[r]) /\ UNCHANGED wallets
    BY <1>5, <1>f DEF Handler, WriteDeposit, Goto
  <2>2. /\ RowsInv' /\ wallet'[User(r)] = lw[r]
        /\ \A u \in Users : u # User(r) => wallet'[u] = wallet[u]
    BY <1>5, <1>d DEF WriteDeposit, HeldCalls, WritingCalls
  <2>3. /\ due'[User(r)] = due[User(r)] + Amount(r)
        /\ \A u \in Users : u # User(r) => due'[u] = due[u]
    BY <1>5, <1>e DEF WriteDeposit
  <2>4. Alone => lw[r].balance = wallet[User(r)].balance + Amount(r)
    BY <1>5, <1>a DEF WriteDeposit, UpToDate, WritingCalls, Change
  <2>5. Alone => AccountingCorrect'
    BY <2>2, <2>3, <2>4, <1>a DEF AccountingCorrect
  <2> QED
    BY <2>1, <2>2, <2>5, AccountMove DEF HeldCalls, WritingCalls
<1>6. ASSUME NEW r \in Requests, WriteWithdraw(r) \/ WritePay(r)
      PROVE  AccountInv'
  <2>1. PICK c : /\ Step(r, c, lw[r], ls[r]) /\ c \in {"WithdrawStatus", "EndTxn"}
                 /\ Running(r) /\ UNCHANGED wallets
    BY <1>6, <1>f DEF Handler, WriteWithdraw, WritePay, Goto
  <2>2. /\ RowsInv' /\ wallet'[User(r)] = lw[r]
        /\ \A u \in Users : u # User(r) => wallet'[u] = wallet[u]
    BY <1>6, <1>d DEF WriteWithdraw, WritePay, HeldCalls, WritingCalls
  <2>3. /\ due'[User(r)] = due[User(r)] + (0 - Amount(r))
        /\ \A u \in Users : u # User(r) => due'[u] = due[u]
    BY <1>6, <1>e DEF WriteWithdraw, WritePay
  <2>4. Alone => lw[r].balance = wallet[User(r)].balance + (0 - Amount(r))
    BY <1>6, <1>a DEF WriteWithdraw, WritePay, UpToDate, WritingCalls, Change
  <2>5. Alone => AccountingCorrect'
    BY <2>2, <2>3, <2>4, <1>a DEF AccountingCorrect
  <2> QED
    BY <2>1, <2>2, <2>5, AccountMove DEF HeldCalls, WritingCalls
<1>7. ASSUME NEW r \in Requests, WriteLock(r) PROVE AccountInv'
  <2>1. PICK c : /\ Step(r, c, lw[r], ls[r]) /\ c \in {"OpenEscrow", "InsertSession"}
                 /\ Running(r) /\ UNCHANGED <<wallets, due>>
    BY <1>7, <1>f DEF Handler, WriteLock, Goto, hist
  <2>2. /\ RowsInv' /\ wallet'[User(r)] = lw[r]
        /\ \A u \in Users : u # User(r) => wallet'[u] = wallet[u]
    BY <1>7, <1>d DEF WriteLock, HeldCalls, WritingCalls
  <2>3. Alone => lw[r].balance = wallet[User(r)].balance
    BY <1>7, <1>a DEF WriteLock, UpToDate, WritingCalls, Change
  <2>4. Alone => AccountingCorrect'
    BY <2>1, <2>2, <2>3, <1>a DEF AccountingCorrect
  <2> QED
    BY <2>1, <2>2, <2>4, AccountMove DEF HeldCalls, WritingCalls
<1>8. ASSUME NEW r \in Requests, ReadWithdraw(r) PROVE AccountInv'
  <2>1. Running(r) /\ UNCHANGED <<wallets, wallet, due>>
    BY <1>8, <1>f DEF Handler, ReadWithdraw, rows, hist
  <2>2. PICK c, w, s :
          /\ Step(r, c, w, s)
          /\ \/ c = "done"
             \/ /\ c = "WithdrawTxn" /\ User(r) \in wallets
                /\ w = wallet[User(r)]
    BY <1>8 DEF ReadWithdraw, Return
  <2> QED
    BY <2>1, <2>2, <1>a, <1>b, <1>c, AccountMove DEF HeldCalls, WritingCalls,
       Change
<1>9. ASSUME NEW r \in Requests, WithdrawTxn(r) PROVE AccountInv'
  <2>1. /\ Running(r) /\ UNCHANGED <<wallets, wallet, due>>
        /\ \/ Step(r, "Transfer", lw[r], ls[r])
           \/ Step(r, "done", EmptyRow, NoSession)
    BY <1>9, <1>f DEF Handler, WithdrawTxn, Goto, Return, hist
  <2>2. User(r) \in wallets /\ (Alone => lw[r].balance = wallet[User(r)].balance)
    BY <1>9, <1>a DEF WithdrawTxn, UpToDate, HeldCalls, WritingCalls, Change
  <2> QED
    BY <2>1, <2>2, <1>a, <1>b, <1>c, AccountMove DEF HeldCalls, WritingCalls,
       Change
<1>10. ASSUME NEW r \in Requests, Transfer(r) PROVE AccountInv'
  <2>1. Running(r) /\ UNCHANGED <<wallets, wallet, due>>
    BY <1>10, <1>f DEF Handler, Transfer, rows
  <2>2. User(r) \in wallets /\ (Alone => lw[r].balance = wallet[User(r)].balance)
    BY <1>10, <1>a DEF Transfer, UpToDate, HeldCalls, WritingCalls, Change
  <2>3. DeductFunds(lw[r], Amount(r)).balance = lw[r].balance - Amount(r)
    BY <1>a DEF DeductFunds, WalletRow
  <2>4. PICK c, w, s :
          /\ Step(r, c, w, s)
          /\ \/ c \in {"done", "WithdrawFailed"}
             \/ c = "WriteWithdraw" /\ w = DeductFunds(lw[r], Amount(r))
    BY <1>10 DEF Transfer, Goto, Return
  <2>5. Alone /\ c \in WritingCalls =>
          w.balance = wallet[User(r)].balance + Change(c, Amount(r))
    BY <2>2, <2>3, <2>4, <1>a DEF WritingCalls, Change
  <2> QED
    BY <2>1, <2>2, <2>4, <2>5, <1>b, <1>c, AccountMove
<1>11. ASSUME NEW r \in Requests, ReadStart(r) PROVE AccountInv'
  <2>1. Running(r) /\ UNCHANGED <<wallets, wallet, due>>
    BY <1>11, <1>f DEF Handler, ReadStart, rows, hist
  <2>2. LockFunds(wallet[User(r)], Amount(r)).balance = wallet[User(r)].balance
    BY <1>a DEF LockFunds, WalletRow
  <2>3. PICK c, w, s :
          /\ Step(r, c, w, s)
          /\ \/ c = "done"
             \/ /\ c = "WriteLock" /\ User(r) \in wallets
                /\ w = LockFunds(wallet[User(r)], Amount(r))
    BY <1>11 DEF ReadStart, Return
  <2> QED
    BY <2>1, <2>2, <2>3, <1>a, <1>b, <1>c, AccountMove DEF HeldCalls,
       WritingCalls, Change
<1>12. ASSUME NEW r \in Requests, ReadPay(r) PROVE AccountInv'
  <2>1. Running(r) /\ UNCHANGED <<wallets, wallet, due>>
    BY <1>12, <1>f DEF Handler, ReadPay, rows, hist
  <2> DEFINE row == UnlockFunds(wallet[User(r)], wallet[User(r)].locked)
  <2>2. row \in WalletRow /\ row.balance = wallet[User(r)].balance
    BY <1>a, WalletOperations DEF WalletRow
  <2>3. DeductFunds(row, Amount(r)).balance = wallet[User(r)].balance - Amount(r)
    BY <2>2, <1>a DEF DeductFunds, WalletRow
  <2>4. PICK c, w, s :
          /\ Step(r, c, w, s)
          /\ \/ c = "done"
             \/ /\ c = "WritePay" /\ User(r) \in wallets
                /\ w = DeductFunds(row, Amount(r))
    BY <1>12 DEF ReadPay, Return
  <2>5. Alone /\ c \in WritingCalls =>
          w.balance = wallet[User(r)].balance + Change(c, Amount(r))
    BY <2>3, <2>4, <1>a DEF WritingCalls, Change
  <2>6. c \in HeldCalls => User(r) \in wallets
    BY <2>4 DEF HeldCalls, WritingCalls
  <2> HIDE DEF row
  <2> QED
    BY <2>1, <2>4, <2>5, <2>6, <1>b, <1>c, AccountMove
<1>13. ASSUME NEW r \in Requests, Arrive(r) PROVE AccountInv'
  <2>1. PICK o \in AllOps :
          /\ pc'[r] = Entry[o]
          /\ \A q \in Requests \ {r} : pc'[q] = pc[q] /\ arg'[q] = arg[q]
          /\ UNCHANGED <<rows, lw, due>>
    BY <1>13, Arrivals
  <2>2. Entry[o] \notin HeldCalls /\ Entry[o] \notin WritingCalls
    BY DEF Entry, AllOps, HeldCalls, WritingCalls
  <2>3. RowsInv' /\ OwnersInv'
    BY <2>1, <2>2, <1>b DEF OwnersInv, User, rows
  <2>4. Alone' => AccountingCorrect' /\ \A q \in Requests : UpToDate(q)'
    BY <2>1, <2>2, <1>c DEF UpToDate, User, Amount, rows
  <2> QED
    BY <2>3, <2>4 DEF AccountInv, RowsInv, OwnersInv, Alone, UpToDate, HeldCalls
<1>14. CASE Crash
  <2>1. \A q \in Requests : pc'[q] \in {"idle", "done"}
    BY <1>14 DEF Crash, Running, TypeOK, HandlersOK
  <2>2. RowsInv' /\ OwnersInv'
    BY <2>1, <1>b, <1>14 DEF OwnersInv, HeldCalls, WritingCalls, Crash, rows
  <2>3. Alone' => AccountingCorrect' /\ \A q \in Requests : UpToDate(q)'
    BY <2>1, <1>c, <1>14 DEF UpToDate, WritingCalls, Crash, rows, hist
  <2> QED
    BY <2>2, <2>3 DEF AccountInv, RowsInv, OwnersInv, Alone, UpToDate, HeldCalls
<1>15. ASSUME UNCHANGED <<rows, local, hist>> PROVE AccountInv'
  BY <1>15 DEF AccountInv, AccountingCorrect, Never, rows, local, hist, User,
     Amount
<1> QED
  BY <1>1, <1>2, <1>3, <1>4, <1>5, <1>6, <1>7, <1>8, <1>9, <1>10, <1>11,
     <1>12, <1>13, <1>14, <1>15, WalletSteps DEF ChainDeposit, vars

-----------------------------------------------------------------------------
LEMMA BillingInit == Init => BillingInv
<1> SUFFICES ASSUME Init PROVE BillingInv
  OBVIOUS
<1>1. \A r \in Requests : pc[r] = "idle"
  BY DEF Init
<1>2. OpInv /\ SerialInv
  BY <1>1 DEF OpInv, SerialInv, Running, Calls
<1>3. EndInv
  BY <1>1, BillingAssumption DEF Init, CovenantInit, EndInv, EndCalls
<1>4. AuditInv
  BY <1>1 DEF Init, AuditInv, PaymentsAudited
<1>5. ChargeInv
  BY <1>1 DEF Init, ChargeInv, ChargedOnce, EndCalls
<1>6. AccountInv
  <2>1. \A u \in Users : wallet[u].balance = due[u]
    BY DEF Init
  <2>2. \A u \in Users \ wallets : wallet[u].balance = 0
    BY DEF Init, EmptyRow
  <2> QED
    BY <1>1, <2>1, <2>2 DEF AccountInv, AccountingCorrect, WritingCalls
<1> QED
  BY <1>2, <1>3, <1>4, <1>5, <1>6, SessionInit DEF BillingInv

LEMMA BillingStep == BillingInv /\ [Next]_vars => BillingInv'
BY SessionStep, OpStep, SerialStep, EndStep, AuditStep, ChargeStep, AccountStep
   DEF BillingInv, SessionInv

(* The inductive invariant behind the next three theorems: what every      *)
(* handler's copies say of the rows, whatever else runs.                   *)
THEOREM BillingInvCorrect == Spec => []BillingInv
BY BillingInit, BillingStep, PTL DEF Spec

(* The tables of a session, its escrow and the wallet's log agree in every *)
(* interleaving, failure and crash, for any number of requests.            *)
THEOREM RecordsAgreeCorrect == Spec => []RecordsAgree
<1>1. BillingInv => RecordsAgree
  BY DEF BillingInv, SessionInv, AuditInv, EndInv, Undisturbed, RecordsAgree,
     DeliveredWasEnded
<1> QED
  BY <1>1, BillingInvCorrect, PTL

(* Requests that do not overlap charge a session at most once, wherever    *)
(* they fail or are cut off.                                               *)
THEOREM ChargedOnceCorrect == Spec => []ChargedOnce
<1>1. BillingInv => ChargedOnce
  BY DEF BillingInv, ChargeInv
<1> QED
  BY <1>1, BillingInvCorrect, PTL

(* Requests that do not overlap, none of which copies the chain's balance, *)
(* lose and repeat no update of a balance, wherever they fail.             *)
THEOREM AccountedCorrect == Spec => []Accounted
<1>1. BillingInv => Accounted
  BY DEF BillingInv, AccountInv, Accounted
<1> QED
  BY <1>1, BillingInvCorrect, PTL

-----------------------------------------------------------------------------
(* What a wallet holds and has locked.  Every row a handler computes       *)
(* covers its lock, unless a negative deposit was added to it, or is       *)
(* about to be, or GetWalletBalance copied the chain's balance, which no   *)
(* lock enters but which is never negative.                                *)

Backed ==
  {w \in WalletRow : /\ w.balance >= 0
                     /\ Never("balance") => w.locked <= w.balance}

CopyBacked(r) ==
  \/ lw[r] \in Backed
  \/ Debited(User(r))
  \/ pc[r] = "WriteDeposit" /\ Amount(r) < 0

FundsInv ==
  /\ \A u \in Users : wallet[u] \in Backed \/ Debited(u)
  /\ \A r \in Requests :
       /\ CopyBacked(r)
       /\ pc[r] = "idle" => lw[r] = EmptyRow
       /\ pc[r] \in DepositCalls => arg[r].op = "deposit"
       /\ pc[r] \in {"WithdrawTxn", "Transfer"} => CanSpend(lw[r], Amount(r))

(* Only an addition can uncover a row: the other operations look first.    *)
LEMMA BackedOperations ==
  ASSUME NEW w \in WalletRow, NEW a \in Int
  PROVE  /\ w \in Backed /\ a >= 0 => AddFunds(w, a) \in Backed
         /\ CanSpend(w, a) /\ a \in Nat => LockFunds(w, a) \in Backed
         /\ CanSpend(w, a) => DeductFunds(w, a) \in Backed
         /\ w.balance >= a => DeductFunds(UnlockFunds(w, w.locked), a) \in
               Backed
<1> USE DEF Backed, WalletRow
<1>1. w \in Backed /\ a >= 0 => AddFunds(w, a) \in Backed
  BY DEF AddFunds
<1>2. CanSpend(w, a) /\ a \in Nat => LockFunds(w, a) \in Backed
  BY DEF CanSpend, AvailableBalance, LockFunds
<1>3. CanSpend(w, a) => DeductFunds(w, a) \in Backed
  BY DEF CanSpend, AvailableBalance, DeductFunds
<1>4. w.balance >= a => DeductFunds(UnlockFunds(w, w.locked), a) \in Backed
  <2> DEFINE v == [w EXCEPT !.locked = 0]
  <2>1. UnlockFunds(w, w.locked) = v
    BY DEF UnlockFunds
  <2>2. v \in WalletRow /\ v.balance = w.balance /\ v.locked = 0
    OBVIOUS
  <2> HIDE DEF v
  <2> QED
    BY <2>1, <2>2 DEF DeductFunds
<1> QED
  BY <1>1, <1>2, <1>3, <1>4

(* A negative deposit that was applied stays applied, and a request that   *)
(* has arrived has arrived.                                                *)
LEMMA DebitedStays ==
  ASSUME BillingInv, [Next]_vars
  PROVE  Backed \subseteq Backed' /\ \A u \in Users : Debited(u) => Debited(u)'
<1>0. TypeOK /\ KnownInv
  BY DEF BillingInv, SessionInv, ChargeInv, KnownInv
<1>1. Never("balance")' => Never("balance")
  BY <1>0, NeverBefore
<1>2. Backed \subseteq Backed'
  BY <1>1 DEF Backed
<1>3. applied \subseteq applied' /\ \A q \in applied : arg'[q] = arg[q]
  <2>1. ASSUME NEW r \in Requests, Handler(r) \/ Fail(r)
        PROVE  applied \subseteq applied' /\ arg' = arg
    <3>1. arg' = arg
      BY <1>0, <2>1, HandlerContinues, ContinuesMoves
    <3>2. CASE Applies(r)
      BY <3>1, <3>2 DEF Applies, WriteDeposit, WriteWithdraw, WritePay, Applied
    <3> QED
      BY <2>1, <3>1, <3>2, AppliedMoves
  <2>2. ASSUME NEW r \in Requests, Arrive(r)
        PROVE  applied = applied' /\ \A q \in applied : arg'[q] = arg[q]
    <3>1. /\ pc[r] = "idle" /\ applied' = applied
          /\ \A q \in Requests \ {r} : arg'[q] = arg[q]
      BY <1>0, <2>2, Arrivals
    <3> QED
      BY <1>0, <3>1 DEF KnownInv, TypeOK, HistoryOK
  <2>3. CASE Crash
    BY <2>3 DEF Crash, hist
  <2>4. ASSUME NEW u \in Users, ChainDeposit(u)
        PROVE  UNCHANGED <<applied, arg>>
    BY <2>4 DEF ChainDeposit, hist, local
  <2>5. CASE UNCHANGED vars
    BY <2>5 DEF vars, hist, local
  <2> QED
    BY <2>1, <2>2, <2>3, <2>4, <2>5 DEF Next, Quiet
<1>4. ASSUME NEW u \in Users, Debited(u) PROVE Debited(u)'
  BY <1>3, <1>4 DEF Debited, User, Amount
<1> QED
  BY <1>2, <1>4

(* A step of request r keeps FundsInv if the rows it leaves and the copy   *)
(* it goes on with are backed.                                             *)
LEMMA FundsMove ==
  ASSUME BillingInv, FundsInv, [Next]_vars, NEW r \in Requests,
         NEW c, NEW w, NEW s, Step(r, c, w, s),
         \A u \in Users : wallet'[u] \in Backed \/ Debited(u) \/ Debited(u)',
         \/ w \in Backed
         \/ Debited(User(r)) \/ Debited(User(r))'
         \/ c = "WriteDeposit" /\ Amount(r) < 0,
         c \in DepositCalls => arg[r].op = "deposit",
         c \in {"WithdrawTxn", "Transfer"} => CanSpend(w, Amount(r)),
         c # "idle"
  PROVE  FundsInv'
<1>0. TypeOK
  BY DEF BillingInv, SessionInv
<1>1. /\ pc'[r] = c /\ lw'[r] = w /\ arg' = arg
      /\ \A q \in Requests \ {r} : pc'[q] = pc[q] /\ lw'[q] = lw[q]
  BY <1>0 DEF Step, TypeOK, HandlersOK
<1>2. \A q \in Requests : /\ User(q)' = User(q) /\ Amount(q)' = Amount(q)
                         /\ User(q) \in Users
  BY <1>0, <1>1, ArgTypes DEF User, Amount, TypeOK
<1>3. Backed \subseteq Backed' /\ \A u \in Users : Debited(u) => Debited(u)'
  BY DebitedStays
<1>4. \A u \in Users : wallet'[u] \in Backed' \/ Debited(u)'
  BY <1>3
<1>5. CopyBacked(r)'
  <2>1. (lw[r])' \in Backed' \/ Debited(User(r))' \/
        (c = "WriteDeposit" /\ Amount(r) < 0)
    BY <1>1, <1>2, <1>3 DEF Debited
  <2> QED
    BY <2>1, <1>1, <1>2 DEF CopyBacked
<1>6. ASSUME NEW q \in Requests \ {r} PROVE CopyBacked(q)'
  <2>1. Debited(User(q)) => Debited(User(q))'
    BY <1>2, <1>3 DEF Debited
  <2> QED
    BY <2>1, <1>1, <1>2, <1>3 DEF CopyBacked, FundsInv
<1>7. ASSUME NEW q \in Requests
      PROVE  /\ pc'[q] = "idle" => lw'[q] = EmptyRow
             /\ pc'[q] \in DepositCalls => arg'[q].op = "deposit"
             /\ pc'[q] \in {"WithdrawTxn", "Transfer"} =>
                  CanSpend(lw'[q], Amount(q)')
  BY <1>1, <1>2 DEF FundsInv
<1> QED
  BY <1>4, <1>5, <1>6, <1>7 DEF FundsInv, CanSpend, AvailableBalance

LEMMA FundsStep == BillingInv /\ FundsInv /\ [Next]_vars => FundsInv'
<1> SUFFICES ASSUME BillingInv, FundsInv, [Next]_vars PROVE FundsInv'
  OBVIOUS
<1>0. TypeOK /\ OpInv /\ TypeOK'
  BY TypeStep DEF BillingInv, SessionInv
<1>a. ASSUME NEW r \in Requests
      PROVE  /\ User(r) \in Users /\ Amount(r) \in Int
             /\ lw[r] \in WalletRow /\ wallet[User(r)] \in WalletRow
             /\ chain[User(r)] \in Nat
             /\ CopyBacked(r)
             /\ wallet[User(r)] \in Backed \/ Debited(User(r))
             /\ pc[r] \in {"WithdrawTxn", "Transfer"} =>
                  CanSpend(lw[r], Amount(r))
  BY <1>0, ArgTypes DEF TypeOK, TablesOK, HandlersOK, FundsInv
<1>b. UNCHANGED wallet => \A u \in Users : wallet'[u] \in Backed \/ Debited(u)
  BY DEF FundsInv
<1>c. ASSUME NEW r \in Requests, UpdateWalletBalance(User(r), lw[r]),
             arg' = arg,
             lw[r] \in Backed \/ Debited(User(r)) \/ Debited(User(r))'
      PROVE  \A u \in Users : wallet'[u] \in Backed \/ Debited(u) \/ Debited(u)'
  <2>1. ASSUME NEW u \in Users, u # User(r) PROVE wallet'[u] = wallet[u]
    BY <1>0, <1>a, <1>c, <2>1 DEF UpdateWalletBalance, TypeOK, TablesOK
  <2>2. wallet'[User(r)] = lw[r]
    BY <1>0, <1>a, <1>c DEF UpdateWalletBalance, TypeOK, TablesOK
  <2>3. ASSUME NEW u \in Users, u = User(r)
        PROVE  wallet'[u] \in Backed \/ Debited(u) \/ Debited(u)'
    BY <1>c, <2>2, <2>3 DEF Debited, User
  <2> QED
    BY <2>1, <2>3 DEF FundsInv
<1>d. EmptyRow \in Backed
  BY DEF EmptyRow, Backed, WalletRow
<1>1. ASSUME NEW r \in Requests, Walletless(r) PROVE FundsInv'
  <2>1. PICK c, w, s :
          /\ Step(r, c, w, s)
          /\ c \notin HeldCalls \cup {"idle"} /\ w \in {lw[r], EmptyRow}
          /\ w = lw[r] /\ w # EmptyRow => pc[r] # "WriteDeposit"
          /\ c \in DepositCalls => pc[r] \in DepositCalls
    BY <1>1, WalletlessMoves
  <2>2. UNCHANGED wallet
    BY <1>1, WalletlessMoves
  <2>3. w \in Backed \/ Debited(User(r))
    BY <1>a, <1>d, <2>1 DEF CopyBacked
  <2>4. c \in DepositCalls => arg[r].op = "deposit"
    BY <2>1 DEF FundsInv
  <2> QED
    BY <2>1, <2>2, <2>3, <2>4, <1>b, FundsMove DEF HeldCalls, WritingCalls
<1>2. ASSUME NEW r \in Requests, InsertWallet(r) PROVE FundsInv'
  <2>1. \A u \in Users : wallet'[u] \in Backed \/ Debited(u)
    BY <1>0, <1>2, <1>a, <1>b, <1>d DEF InsertWallet, UpdateWalletBalance,
       TypeOK, TablesOK, FundsInv
  <2> QED
    BY <1>2, <2>1, <1>d, FundsMove DEF InsertWallet, Return, DepositCalls
<1>3. ASSUME NEW r \in Requests, ReadBalance(r) PROVE FundsInv'
  BY <1>3, <1>a, <1>b, <1>d, FundsMove DEF ReadBalance, rows, Return,
     DepositCalls
<1>4. ASSUME NEW r \in Requests, TokenBalance(r) PROVE FundsInv'
  <2>1. ~Never("balance")
    BY <1>0, <1>4 DEF TokenBalance, OpInv, Never, Running, Calls, SyncCalls
  <2>2. [lw[r] EXCEPT !.balance = chain[User(r)]] \in Backed
    BY <1>a, <2>1 DEF Backed, WalletRow
  <2>3. UNCHANGED wallet
    BY <1>4 DEF TokenBalance, rows
  <2>4. CASE Return(r)
    BY <2>3, <2>4, <1>b, <1>d, FundsMove DEF Return, DepositCalls
  <2>5. CASE Step(r, "SyncBalance",
                  [lw[r] EXCEPT !.balance = chain[User(r)]], ls[r])
    BY <2>2, <2>3, <2>5, <1>b, FundsMove DEF DepositCalls
  <2> QED
    BY <1>4, <2>4, <2>5 DEF TokenBalance
<1>5. ASSUME NEW r \in Requests, SyncBalance(r) PROVE FundsInv'
  <2>1. lw[r] \in Backed \/ Debited(User(r))
    BY <1>5, <1>a DEF SyncBalance, CopyBacked
  <2> QED
    BY <1>5, <2>1, <1>c, <1>d, FundsMove DEF SyncBalance, Return, Step,
       DepositCalls
<1>6. ASSUME NEW r \in Requests, ReadDeposit(r) PROVE FundsInv'
  <2>1. arg[r].op = "deposit" /\ UNCHANGED wallet
    BY <1>6 DEF ReadDeposit, FundsInv, DepositCalls, rows
  <2>2. CASE Return(r)
    BY <2>1, <2>2, <1>b, <1>d, FundsMove DEF Return, DepositCalls
  <2>3. CASE Step(r, "WriteDeposit", AddFunds(wallet[User(r)], Amount(r)), ls[r])
    <3>1. \/ AddFunds(wallet[User(r)], Amount(r)) \in Backed
          \/ Debited(User(r)) \/ Amount(r) < 0
      BY <1>a, BackedOperations
    <3> QED
      BY <2>1, <2>3, <3>1, <1>b, FundsMove
  <2> QED
    BY <1>6, <2>2, <2>3 DEF ReadDeposit
<1>7. ASSUME NEW r \in Requests, WriteDeposit(r) PROVE FundsInv'
  <2>1. arg[r].op = "deposit"
    BY <1>7 DEF WriteDeposit, FundsInv, DepositCalls
  <2>2. r \in applied' /\ arg' = arg
    BY <1>7 DEF WriteDeposit, Applied, Goto, Step
  <2>3. Amount(r) < 0 => Debited(User(r))'
    BY <2>1, <2>2 DEF Debited, User, Amount
  <2>4. lw[r] \in Backed \/ Debited(User(r)) \/ Debited(User(r))'
    BY <2>3, <1>a DEF CopyBacked
  <2> QED
    BY <1>7, <2>2, <2>4, <1>c, FundsMove DEF WriteDeposit, Goto, DepositCalls
<1>8. ASSUME NEW r \in Requests, ReadWithdraw(r) PROVE FundsInv'
  BY <1>8, <1>a, <1>b, <1>d, FundsMove DEF ReadWithdraw, rows, Return,
     DepositCalls
<1>9. ASSUME NEW r \in Requests, WithdrawTxn(r) PROVE FundsInv'
  <2>1. /\ lw[r] \in Backed \/ Debited(User(r))
        /\ CanSpend(lw[r], Amount(r)) /\ UNCHANGED wallet
    BY <1>9, <1>a DEF WithdrawTxn, CopyBacked
  <2> QED
    BY <1>9, <2>1, <1>b, <1>d, FundsMove DEF WithdrawTxn, Goto, Return,
       DepositCalls
<1>10. ASSUME NEW r \in Requests, Transfer(r) PROVE FundsInv'
  <2>1. /\ lw[r] \in Backed \/ Debited(User(r))
        /\ DeductFunds(lw[r], Amount(r)) \in Backed /\ UNCHANGED wallet
    BY <1>10, <1>a, BackedOperations DEF Transfer, CopyBacked, rows
  <2>2. PICK c, w, s :
          /\ Step(r, c, w, s)
          /\ c \in {"done", "WithdrawFailed", "WriteWithdraw"}
          /\ w \in {EmptyRow, lw[r], DeductFunds(lw[r], Amount(r))}
    BY <1>10 DEF Transfer, Goto, Return
  <2> QED
    BY <2>1, <2>2, <1>b, <1>d, FundsMove DEF DepositCalls
<1>11. ASSUME NEW r \in Requests, WriteWithdraw(r) \/ WriteLock(r) \/ WritePay(r)
       PROVE  FundsInv'
  <2>1. lw[r] \in Backed \/ Debited(User(r))
    BY <1>11, <1>a DEF WriteWithdraw, WriteLock, WritePay, CopyBacked
  <2>2. PICK c : /\ Step(r, c, lw[r], ls[r])
                 /\ c \in {"WithdrawStatus", "OpenEscrow", "InsertSession",
                            "EndTxn"}
    BY <1>11 DEF WriteWithdraw, WriteLock, WritePay, Goto
  <2>3. UpdateWalletBalance(User(r), lw[r]) /\ arg' = arg
    BY <1>11 DEF WriteWithdraw, WriteLock, WritePay, Goto, Step
  <2> QED
    BY <2>1, <2>2, <2>3, <1>c, FundsMove DEF DepositCalls
<1>12. ASSUME NEW r \in Requests, ReadStart(r) PROVE FundsInv'
  <2>1. /\ CanSpend(wallet[User(r)], Amount(r)) =>
             LockFunds(wallet[User(r)], Amount(r)) \in Backed
        /\ UNCHANGED wallet
    <3>1. Amount(r) \in Nat
      BY <1>0, <1>12, ArgTypes DEF ReadStart, Metering, TypeOK
    <3> QED
      BY <3>1, <1>12, <1>a, BackedOperations DEF ReadStart, rows
  <2>2. PICK c, w, s :
          /\ Step(r, c, w, s) /\ w \in Backed /\ c \in {"done", "WriteLock"}
    BY <1>12, <2>1, <1>d DEF ReadStart, Return
  <2> QED
    BY <2>1, <2>2, <1>b, FundsMove DEF DepositCalls
<1>13. ASSUME NEW r \in Requests, ReadPay(r) PROVE FundsInv'
  <2> DEFINE row == DeductFunds(UnlockFunds(wallet[User(r)],
                                            wallet[User(r)].locked), Amount(r))
  <2>1. wallet[User(r)].balance >= Amount(r) => row \in Backed
    BY <1>a, BackedOperations
  <2>2. UNCHANGED wallet
    BY <1>13 DEF ReadPay, rows
  <2>3. PICK c, w, s :
          /\ Step(r, c, w, s) /\ w \in Backed /\ c \in {"done", "WritePay"}
    BY <1>13, <2>1, <1>d DEF ReadPay, Return
  <2> QED
    BY <2>2, <2>3, <1>b, FundsMove DEF DepositCalls
<1>e. Backed \subseteq Backed' /\ \A u \in Users : Debited(u) => Debited(u)'
  BY DebitedStays
<1>14. ASSUME NEW r \in Requests, Arrive(r) PROVE FundsInv'
  <2>1. PICK o \in AllOps, u \in Users, s \in Sessions, a \in Int :
          /\ pc[r] = "idle" /\ pc'[r] = Entry[o] /\ arg'[r].op = o
          /\ \A q \in Requests \ {r} : pc'[q] = pc[q] /\ arg'[q] = arg[q]
          /\ UNCHANGED <<rows, lw>>
    BY <1>0, <1>14, Arrivals
  <2>2. /\ Entry[o] \in DepositCalls => o = "deposit"
        /\ Entry[o] \notin {"WithdrawTxn", "Transfer", "WriteDeposit"}
    BY DEF Entry, AllOps, DepositCalls
  <2>3. \A v \in Users : wallet'[v] \in Backed' \/ Debited(v)'
    BY <1>b, <1>e, <2>1 DEF rows
  <2>4. ASSUME NEW q \in Requests \ {r}
        PROVE  CopyBacked(q)'
    <3>1. /\ User(q)' = User(q) /\ Amount(q)' = Amount(q)
          /\ Debited(User(q)) => Debited(User(q))'
      BY <2>1, <1>a, <1>e DEF User, Amount, Debited
    <3> QED
      BY <2>1, <3>1, <1>a, <1>e DEF CopyBacked
  <2>5. lw[r] = EmptyRow
    BY <2>1 DEF FundsInv
  <2>6. CopyBacked(r)'
    BY <2>1, <2>5, <1>d, <1>e DEF CopyBacked
  <2>7. ASSUME NEW q \in Requests
        PROVE  /\ pc'[q] = "idle" => lw'[q] = EmptyRow
               /\ pc'[q] \in DepositCalls => arg'[q].op = "deposit"
               /\ pc'[q] \in {"WithdrawTxn", "Transfer"} =>
                    CanSpend(lw'[q], Amount(q)')
    BY <2>1, <2>2, <1>a DEF FundsInv, Amount
  <2> QED
    BY <2>3, <2>4, <2>6, <2>7 DEF FundsInv, CanSpend, AvailableBalance
<1>15. CASE Crash
  <2>1. \A q \in Requests : pc'[q] \in {"idle", "done"} /\ lw'[q] = EmptyRow
    BY <1>15, <1>0 DEF Crash, Running, TypeOK, HandlersOK
  <2>2. \A q \in Requests : CopyBacked(q)'
    BY <2>1, <1>d, <1>e DEF CopyBacked
  <2>3. \A v \in Users : wallet'[v] \in Backed' \/ Debited(v)'
    BY <1>b, <1>e, <1>15 DEF Crash, rows
  <2> QED
    BY <2>1, <2>2, <2>3 DEF FundsInv, DepositCalls
<1>16. ASSUME UNCHANGED <<rows, local, hist>> PROVE FundsInv'
  BY <1>16 DEF FundsInv, CopyBacked, Backed, Debited, Never, rows, local, hist,
     User, Amount
<1> QED
  BY <1>1, <1>2, <1>3, <1>4, <1>5, <1>6, <1>7, <1>8, <1>9, <1>10, <1>11,
     <1>12, <1>13, <1>14, <1>15, <1>16, WalletSteps DEF ChainDeposit, vars

LEMMA FundsInit == Init => FundsInv
<1> SUFFICES ASSUME Init PROVE FundsInv
  OBVIOUS
<1>1. EmptyRow \in Backed /\ [balance |-> InitialBalance, locked |-> 0] \in Backed
  BY BillingAssumption DEF EmptyRow, Backed, WalletRow
<1> QED
  BY <1>1 DEF Init, FundsInv, CopyBacked, DepositCalls

(* FundsInv holds in every state, for any number of requests and amounts   *)
(* of either sign.                                                         *)
LEMMA FundsHeld == Spec => [](TypeOK /\ FundsInv)
<1>1. BillingInv => TypeOK
  BY DEF BillingInv, SessionInv
<1> QED
  BY <1>1, FundsInit, FundsStep, BillingInvCorrect, PTL DEF Spec

(* However requests interleave, fail or are cut off by a crash, a balance  *)
(* is negative only after a negative deposit.                              *)
THEOREM SolventCorrect == Spec => []Solvent
<1>1. TypeOK /\ FundsInv => Solvent
  BY DEF TypeOK, TablesOK, WalletRow, FundsInv, Backed, Solvent
<1> QED
  BY <1>1, FundsHeld, PTL

(* However requests interleave, fail or are cut off by a crash, no wallet  *)
(* without a negative deposit has more locked than it holds, as long as no *)
(* request copies the balance on the chain over the one in the database.   *)
THEOREM LockCoveredCorrect == Spec => []LockCovered
<1>1. FundsInv => LockCovered
  BY DEF FundsInv, Backed, LockCovered
<1> QED
  BY <1>1, FundsHeld, PTL

-----------------------------------------------------------------------------
(* The escrow's other end, the manager and the payout crank, for any       *)
(* window, page size and faults.                                           *)

(* What makes PayoutRespectsWindow hold although the crank works on an old  *)
(* list: the window of a job that was ripe when it was listed stays over.   *)
WorkRipe == \A j \in work : left[j] = 0

PayoutInv == SettlementTypeOK /\ WorkRipe

(* A transaction that lands found its job in the state it starts from.      *)
LEMMA LandsFrom ==
  ASSUME NEW accepted \in BOOLEAN, NEW landed \in BOOLEAN, NEW reported \in BOOLEAN,
         Send(accepted, landed, reported)
  PROVE  landed => accepted
BY DEF Send

(* Whatever is signed, a job's state stays a state of the escrow.           *)
LEMMA EscrowTypes ==
  ASSUME SettlementTypeOK, NEW j \in Jobs, NEW from \in JobStatus,
         NEW to \in JobStatus,
         NEW landed \in BOOLEAN, NEW reported \in BOOLEAN,
         SignAndSend(j, from, to, landed, reported)
  PROVE  job' \in [Jobs -> JobStatus]
BY DEF SettlementTypeOK, CovenantTypeOK, SignAndSend

LEMMA PostTypes ==
  ASSUME SettlementTypeOK, NEW j \in Jobs, NEW st \in JobStatus,
         NEW recorded \in BOOLEAN, NEW reported \in BOOLEAN,
         IndexPost(j, st, recorded, reported)
  PROVE  index' \in [Jobs -> JobStatus]
BY DEF SettlementTypeOK, CovenantTypeOK, IndexPost

(* The inductive step, one action at a time.                                *)
LEMMA PayoutStep ==
  ASSUME PayoutInv, [SettlementNext]_settlementVars
  PROVE  PayoutInv'
<1> USE DEF PayoutInv
<1>1. ASSUME NEW j \in Jobs, OpenRentalJob(j) PROVE PayoutInv'
  <2>1. job' \in [Jobs -> JobStatus]
    BY <1>1, EscrowTypes DEF OpenRentalJob, CreateJob, JobStatus
  <2> QED
    BY <1>1, <2>1 DEF OpenRentalJob, SettlementTypeOK, CovenantTypeOK, WorkRipe
<1>2. ASSUME NEW j \in Jobs, IndexOpen(j) PROVE PayoutInv'
  <2>1. index' \in [Jobs -> JobStatus]
    BY <1>2, PostTypes DEF IndexOpen, JobStatus
  <2> QED
    BY <1>2, <2>1 DEF IndexOpen, SettlementTypeOK, CovenantTypeOK, WorkRipe
<1>3. ASSUME NEW j \in Jobs, CloseRentalJob(j) PROVE PayoutInv'
  <2>1. job' \in [Jobs -> JobStatus]
    BY <1>3, EscrowTypes DEF CloseRentalJob, SubmitWork, JobStatus
  <2> QED
    BY <1>3, <2>1 DEF CloseRentalJob, SettlementTypeOK, CovenantTypeOK, WorkRipe
<1>4. ASSUME NEW j \in Jobs, IndexSubmitWork(j) PROVE PayoutInv'
  <2>1. index' \in [Jobs -> JobStatus]
    BY <1>4, PostTypes DEF IndexSubmitWork, JobStatus
  <2> QED
    BY <1>4, <2>1 DEF IndexSubmitWork, SettlementTypeOK, CovenantTypeOK, WorkRipe
<1>5. ASSUME NEW j \in Jobs, DisputeRentalJob(j) PROVE PayoutInv'
  <2>1. job' \in [Jobs -> JobStatus]
    BY <1>5, EscrowTypes DEF DisputeRentalJob, RaiseDispute, JobStatus
  <2> QED
    BY <1>5, <2>1 DEF DisputeRentalJob, SettlementTypeOK, CovenantTypeOK, WorkRipe
<1>6. ASSUME NEW j \in Jobs, ApiSync(j) PROVE PayoutInv'
  BY <1>6 DEF ApiSync, SettlementTypeOK, CovenantTypeOK, WorkRipe
<1>7. ASSUME NEW j \in Jobs, SettleRentalJob(j) PROVE PayoutInv'
  <2>1. job' \in [Jobs -> JobStatus]
    BY <1>7, EscrowTypes DEF SettleRentalJob, Finalize, JobStatus
  <2> QED
    BY <1>7, <2>1 DEF SettleRentalJob, SettlementTypeOK, CovenantTypeOK, WorkRipe
<1>8. CASE Tick
  <2>1. left' \in [Jobs -> 0 .. Window]
    BY <1>8, SettlementAssumption DEF Tick, OpenWindows, SettlementTypeOK
  <2>2. \A j \in Jobs : left[j] = 0 => left'[j] = 0
    BY <1>8 DEF Tick, OpenWindows, SettlementTypeOK
  <2> QED
    BY <1>8, <2>1, <2>2 DEF Tick, SettlementTypeOK, CovenantTypeOK, WorkRipe
<1>9. CASE ListRipeJobs
  <2>1. PICK page \in Pages : work' = {j \in page : Ripe(j)}
    BY <1>9 DEF ListRipeJobs
  <2>2. page \subseteq Jobs
    BY <2>1 DEF Pages
  <2> QED
    BY <1>9, <2>1, <2>2 DEF ListRipeJobs, Ripe, SettlementTypeOK, CovenantTypeOK, WorkRipe
<1>10. CASE Restart
  BY <1>10 DEF Restart, SettlementTypeOK, CovenantTypeOK, WorkRipe
<1>11. CASE UNCHANGED settlementVars
  BY <1>11 DEF settlementVars, SettlementTypeOK, CovenantTypeOK, WorkRipe
<1> QED
  BY <1>1, <1>2, <1>3, <1>4, <1>5, <1>6, <1>7, <1>8, <1>9, <1>10, <1>11 DEF SettlementNext

LEMMA PayoutStart ==
  ASSUME SettlementInit
  PROVE  PayoutInv
BY SettlementAssumption DEF SettlementInit, PayoutInv, SettlementTypeOK, CovenantInit,
       CovenantTypeOK, JobStatus, WorkRipe

LEMMA PayoutInvHolds == SettlementSpec => []PayoutInv
<1>1. SettlementInit => PayoutInv
  BY PayoutStart
<1>2. PayoutInv /\ [SettlementNext]_settlementVars => PayoutInv'
  BY PayoutStep
<1> QED
  BY <1>1, <1>2, PTL DEF SettlementSpec

(* Escrow, index, windows and the list of the crank keep their types.       *)
THEOREM SettlementTypeCorrect == SettlementSpec => []SettlementTypeOK
<1>1. PayoutInv => SettlementTypeOK
  BY DEF PayoutInv
<1> QED
  BY <1>1, PayoutInvHolds, PTL

(* Only the crank's Finalize settles a job, and it lands only on a job that *)
(* is delivered and whose window is over.                                   *)
LEMMA SettlesRipe ==
  ASSUME PayoutInv, [SettlementNext]_settlementVars,
         NEW j \in Jobs, job'[j] = "settled", job[j] # "settled"
  PROVE  job[j] = "delivered" /\ left[j] = 0
<1> USE DEF PayoutInv
<1>1. ASSUME NEW k \in Jobs, NEW from \in JobStatus,
             NEW to \in JobStatus \ {"settled"},
             NEW landed \in BOOLEAN, NEW reported \in BOOLEAN,
             SignAndSend(k, from, to, landed, reported)
      PROVE  FALSE
  BY <1>1 DEF SignAndSend, SettlementTypeOK, CovenantTypeOK
<1>2. ASSUME NEW k \in Jobs,
             OpenRentalJob(k) \/ CloseRentalJob(k) \/ DisputeRentalJob(k)
      PROVE  FALSE
  BY <1>1, <1>2 DEF OpenRentalJob, CreateJob, CloseRentalJob, SubmitWork,
                    DisputeRentalJob, RaiseDispute, JobStatus
<1>3. ASSUME NEW k \in Jobs, SettleRentalJob(k)
      PROVE  job[j] = "delivered" /\ left[j] = 0
  <2>1. PICK landed \in BOOLEAN, reported \in BOOLEAN : Finalize(k, landed, reported)
    BY <1>3 DEF SettleRentalJob
  <2>2. landed /\ k = j
    BY <2>1 DEF Finalize, SignAndSend, SettlementTypeOK, CovenantTypeOK
  <2>3. job[k] = "delivered"
    BY <2>1, <2>2, LandsFrom DEF Finalize, SignAndSend
  <2>4. left[k] = 0
    BY <1>3 DEF SettleRentalJob, WorkRipe
  <2> QED
    BY <2>2, <2>3, <2>4
<1>4. ASSUME job' = job PROVE FALSE
  BY <1>4
<1>5. CASE UNCHANGED settlementVars
  BY <1>4, <1>5 DEF settlementVars
<1> QED
  BY <1>2, <1>3, <1>4, <1>5
  DEF SettlementNext, IndexOpen, IndexSubmitWork, ApiSync, Tick,
      ListRipeJobs, Restart

(* PayoutRespectsWindow: however old the list of the crank is, a job is     *)
(* paid out only when it is delivered, undisputed, and its window is over.  *)
THEOREM PayoutRespectsWindowCorrect == SettlementSpec => PayoutRespectsWindow
<1>1. PayoutInv /\ [SettlementNext]_settlementVars =>
        [\A j \in Jobs : job'[j] = "settled" /\ job[j] # "settled" =>
           job[j] = "delivered" /\ left[j] = 0]_settlementVars
  BY SettlesRipe
<1> QED
  BY <1>1, PayoutInvHolds, PTL DEF SettlementSpec, PayoutRespectsWindow
=============================================================================
