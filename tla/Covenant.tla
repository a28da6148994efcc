------------------------------ MODULE Covenant ------------------------------
(***************************************************************************)
(* The Covenant escrow as the billing service sees it.  `job` is the state *)
(* of the per-rental escrow account on the chain; `index` is what the      *)
(* Covenant HTTP API knows of it.  The two are written by different calls  *)
(* of internal/covenant (onchain.go and client.go), and either call may    *)
(* fail, so they can disagree.                                             *)
(*                                                                         *)
(* The chain program itself is not in the repository: its transitions are  *)
(* the ones the signer's instructions ask for (create+accept, submit,      *)
(* dispute, finalize).                                                     *)
(***************************************************************************)
EXTENDS Integers

CONSTANTS Jobs,           \* rental jobs, one per rental session
          Faults          \* kinds of fault that happen

VARIABLES job,            \* on-chain JobEscrow status
          index           \* status recorded by the Covenant HTTP API

covenantVars == <<job, index>>

JobStatus == {"none", "accepted", "delivered", "disputed", "settled"}

CovenantTypeOK ==
  /\ job \in [Jobs -> JobStatus]
  /\ index \in [Jobs -> JobStatus]

CovenantInit ==
  /\ job = [j \in Jobs |-> "none"]
  /\ index = [j \in Jobs |-> "none"]

(***************************************************************************)
(* Sending a transaction (signAndSend, TransferTokens): it is simulated    *)
(* first, so one that the chain would refuse is reported as an error.  A   *)
(* sent transaction is not waited for: it may be reported as sent and      *)
(* never land, and it may land although the RPC call returned an error.    *)
(***************************************************************************)
Send(accepted, landed, reported) ==
  IF accepted
  THEN "chain" \in Faults \/ (landed /\ reported)
  ELSE ~landed /\ ~reported

(* Signer.signAndSend, moving the escrow of job j from one state to another. *)
SignAndSend(j, from, to, landed, reported) ==
  /\ Send(job[j] = from, landed, reported)
  /\ job' = IF landed THEN [job EXCEPT ![j] = to] ELSE job

(* Signer.CreateJob: create_job and accept_job in one transaction. *)
CreateJob(j, landed, reported) ==
  SignAndSend(j, "none", "accepted", landed, reported)

(* Signer.SubmitWork: the receipt hash; starts the challenge window. *)
SubmitWork(j, landed, reported) ==
  SignAndSend(j, "accepted", "delivered", landed, reported)

(* Signer.RaiseDispute: only a delivered job can be disputed. *)
RaiseDispute(j, landed, reported) ==
  SignAndSend(j, "delivered", "disputed", landed, reported)

(* Signer.Finalize: pays the provider of a delivered job. *)
Finalize(j, landed, reported) ==
  SignAndSend(j, "delivered", "settled", landed, reported)

(***************************************************************************)
(* Client.IndexCreatedJob and Client.SubmitWork post the signature of a    *)
(* transaction; the API "records and verifies it" (client.go, comment on   *)
(* IndexCreatedJob), so it accepts only what is on the chain.  The API may *)
(* record and still answer with an error (a timeout).                      *)
(***************************************************************************)
Reached(st) == IF st = "accepted" THEN JobStatus \ {"none"}
                                 ELSE JobStatus \ {"none", "accepted"}

IndexPost(j, st, recorded, reported) ==
  /\ IF job[j] \in Reached(st)
     THEN IF "api" \in Faults THEN reported => recorded
                              ELSE recorded /\ reported
     ELSE ~recorded /\ ~reported
  /\ index' = IF recorded THEN [index EXCEPT ![j] = st] ELSE index
=============================================================================
