----------------------------- MODULE Settlement -----------------------------
(***************************************************************************)
(* The provider-payout crank of billing-payment-service                    *)
(* (Manager.SettleRipeJobs, run every two minutes by cmd/main.go) beside   *)
(* the manager's other operations, which the request handlers call.        *)
(*                                                                         *)
(* The crank works on a list it fetched once: while it walks the list,     *)
(* rentals are opened, delivered and disputed, and the list goes stale.    *)
(* Time is the part of each job's challenge window that is left.           *)
(***************************************************************************)
EXTENDS Covenant, FiniteSets

CONSTANTS Window,         \* length of the challenge window, in clock ticks
          PageLimit       \* jobs that one ListJobs call returns at most

ASSUME SettlementAssumption ==
  /\ IsFiniteSet(Jobs)
  /\ Window \in Nat
  /\ PageLimit \in Nat \ {0}

VARIABLES mgr,            \* how far the manager's operations on a job are
          left,           \* time left of a delivered job's challenge window
          work            \* jobs the running crank tick has still to finalize

settlementVars == <<job, index, mgr, left, work>>

SettlementTypeOK ==
  /\ CovenantTypeOK
  /\ mgr \in [Jobs -> {"new", "IndexOpen", "dropped", "open", "IndexSubmit"}]
  /\ left \in [Jobs -> 0 .. Window]
  /\ work \subseteq Jobs

SettlementInit ==
  /\ CovenantInit
  /\ mgr = [j \in Jobs |-> "new"]
  /\ left = [j \in Jobs |-> Window]
  /\ work = {}
-----------------------------------------------------------------------------
(* Manager.OpenRentalJob, called once for a job: the escrow on the chain,  *)
(* then its entry in the index.  When one fails there is no session, and   *)
(* nobody names the job again.                                             *)
OpenRentalJob(j) ==
  /\ mgr[j] = "new"
  /\ \E landed, reported \in BOOLEAN :
        /\ CreateJob(j, landed, reported)
        /\ mgr' = [mgr EXCEPT ![j] = IF reported THEN "IndexOpen"
                                                ELSE "dropped"]
  /\ UNCHANGED <<index, left, work>>

IndexOpen(j) ==
  /\ mgr[j] = "IndexOpen"
  /\ \E recorded, reported \in BOOLEAN :
        /\ IndexPost(j, "accepted", recorded, reported)
        /\ mgr' = [mgr EXCEPT ![j] = IF reported THEN "open" ELSE "dropped"]
  /\ UNCHANGED <<job, left, work>>

(* Manager.CloseRentalJob: submit_work on the chain, which starts the      *)
(* window, then the index; the answer of the index is ignored.  It is      *)
(* called again when a late usage update has reactivated the session.      *)
CloseRentalJob(j) ==
  /\ mgr[j] = "open"
  /\ \E landed, reported \in BOOLEAN :
        /\ SubmitWork(j, landed, reported)
        /\ mgr' = [mgr EXCEPT ![j] = IF reported THEN "IndexSubmit" ELSE "open"]
  /\ UNCHANGED <<index, left, work>>

IndexSubmitWork(j) ==
  /\ mgr[j] = "IndexSubmit"
  /\ \E recorded, reported \in BOOLEAN :
        IndexPost(j, "delivered", recorded, reported)
  /\ mgr' = [mgr EXCEPT ![j] = "open"]
  /\ UNCHANGED <<job, left, work>>

(* Manager.DisputeRentalJob, for a job that a session names.               *)
DisputeRentalJob(j) ==
  /\ mgr[j] \in {"open", "IndexSubmit"}
  /\ \E landed, reported \in BOOLEAN : RaiseDispute(j, landed, reported)
  /\ UNCHANGED <<index, mgr, left, work>>

(* The indexer of Covenant follows the chain by itself.                    *)
ApiSync(j) ==
  /\ index[j] # "none" /\ index[j] # job[j]
  /\ index' = [index EXCEPT ![j] = job[j]]
  /\ UNCHANGED <<job, mgr, left, work>>

(* The clock: every open window gets shorter.                              *)
OpenWindows == {j \in Jobs : job[j] \in {"delivered", "disputed"} /\ left[j] > 0}

Tick ==
  /\ OpenWindows # {}
  /\ left' = [j \in Jobs |-> IF j \in OpenWindows THEN left[j] - 1 ELSE left[j]]
  /\ UNCHANGED <<job, index, mgr, work>>
-----------------------------------------------------------------------------
(* Manager.SettleRipeJobs.  ListJobs asks for one page, without an offset  *)
(* and without a filter on the status: the API chooses which jobs it       *)
(* returns when there are more than PageLimit.  The clock is read once,    *)
(* after the list has arrived.                                             *)
(* Mutants of Ripe: the window is not looked at; it must be over by more   *)
(* than its length.                                                        *)
RipeAtOnce(j) == index[j] = "delivered"
RipeTooLate(j) == index[j] = "delivered" /\ left[j] < 0

Ripe(j) == index[j] = "delivered" /\ left[j] = 0

Pages ==
  LET listed == {j \in Jobs : index[j] # "none"}
  IN IF Cardinality(listed) <= PageLimit
     THEN {listed}
     ELSE {p \in SUBSET listed : Cardinality(p) = PageLimit}

ListRipeJobs ==
  /\ work = {}
  /\ \E page \in Pages :
        /\ work' = {j \in page : Ripe(j)}
        /\ work' # {}
  /\ UNCHANGED <<job, index, mgr, left>>

(* SettleRentalJob for one job of the list; an error is skipped and the    *)
(* job is seen again at the next tick.  The index is not told.             *)
SettleRentalJob(j) ==
  /\ j \in work
  /\ \E landed, reported \in BOOLEAN :
        Finalize(j, landed, reported)
  /\ work' = work \ {j}
  /\ UNCHANGED <<index, mgr, left>>

(* The service restarts: the tick and the manager calls in progress are    *)
(* gone; a job whose session was not yet stored is forgotten.              *)
Restart ==
  /\ "crash" \in Faults
  /\ work # {} \/ \E j \in Jobs : mgr[j] \in {"IndexOpen", "IndexSubmit"}
  /\ work' = {}
  /\ mgr' = [j \in Jobs |-> CASE mgr[j] = "IndexOpen" -> "dropped"
                              [] mgr[j] = "IndexSubmit" -> "open"
                              [] OTHER -> mgr[j]]
  /\ UNCHANGED <<job, index, left>>

SettlementNext ==
  \/ \E j \in Jobs : \/ OpenRentalJob(j) \/ IndexOpen(j)
                     \/ CloseRentalJob(j) \/ IndexSubmitWork(j)
                     \/ DisputeRentalJob(j) \/ ApiSync(j)
                     \/ SettleRentalJob(j)
  \/ Tick
  \/ ListRipeJobs
  \/ Restart

(* Time passes and the ticker keeps calling the crank.  Every job of a     *)
(* list is tried, and of infinitely many attempts to finalize a job that   *)
(* can be finalized some land.                                             *)
Finalizes(j) == SettleRentalJob(j) /\ job'[j] = "settled"

Fairness ==
  /\ WF_settlementVars(Tick)
  /\ WF_settlementVars(ListRipeJobs)
  /\ \A j \in Jobs : WF_settlementVars(SettleRentalJob(j)) /\ SF_settlementVars(Finalizes(j))

SettlementSpec == SettlementInit /\ [][SettlementNext]_settlementVars

FairSpec == SettlementSpec /\ Fairness
-----------------------------------------------------------------------------
(* A job is paid out only after its whole challenge window, and never once *)
(* it is disputed, although the crank decides on a list that may be old.   *)
PayoutRespectsWindow ==
  [][\A j \in Jobs : job'[j] = "settled" /\ job[j] # "settled" =>
        job[j] = "delivered" /\ left[j] = 0]_settlementVars

(* covenant/manager.go on SettleRipeJobs: "It finalizes every delivered,   *)
(* undisputed Covenant job (taker == platform in Phase 1) whose challenge  *)
(* window has elapsed".  A job the index knows as delivered is settled, or *)
(* it is disputed.                                                         *)
EveryDeliveredSettled ==
  \A j \in Jobs : (job[j] = "delivered" /\ index[j] = "delivered")
                     ~> (job[j] \in {"settled", "disputed"})
=============================================================================
