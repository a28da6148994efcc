------------------------------ MODULE Gateway ------------------------------
(***************************************************************************)
(* The API gateway between clients and services: routing, authentication,  *)
(* and the four ways a handler deals with a request: it answers by itself, *)
(* publishes to NATS, relays the service's answer (upstream.Forward,       *)
(* GetJSON, GetWithHeaders), or calls the billing client and turns every   *)
(* failure into a 500.  Each call upstream is made once.  The gateway may  *)
(* give up on a call, or the client on its request, while the service is   *)
(* still at work on it.                                                    *)
(*                                                                         *)
(* A status is a number; 0 is no answer, 400 any refusal by a service.     *)
(***************************************************************************)
EXTENDS Naturals, FiniteSets

CONSTANT HttpRequests   \* bound: requests of a behaviour, 1..n in their order

\* 0 is no request.
ASSUME GatewayAssumption == HttpRequests \subseteq Nat \ {0}

VARIABLES
  http,       \* each request: kind, valid token, valid body, stage, and the
              \* status its client was told
  service,    \* the service's part: "none", "working", "ok", "refused"; a job
              \* that the NATS client holds is "buffered"
  applied,    \* how often a request changed the platform's state
  walletRow   \* the request whose INSERT made the user's wallet, or 0

gatewayVars == <<http, service, applied, walletRow>>

\* How each route is served, and whether its success tells of a change.
\* Requests that take the same way to the same end are one kind: login stands
\* for what is public, status for what is relayed, balance for every read
\* through the billing client, withdraw for a deposit too.  Reads of a
\* balance, by both ways, bring the wallet's row in line with the chain when
\* they find a difference.  A payout is accepted and nothing is done.
\* `unrouted' is any method and path the router does not know.
Routes ==
  [login        |-> [public |-> TRUE,  via |-> "relay",   success |-> 200, effect |-> "none"],
   register     |-> [public |-> TRUE,  via |-> "relay",   success |-> 201, effect |-> "must"],
   submit       |-> [public |-> FALSE, via |-> "publish", success |-> 202, effect |-> "must"],
   status       |-> [public |-> FALSE, via |-> "relay",   success |-> 200, effect |-> "may"],
   cancel       |-> [public |-> FALSE, via |-> "local",   success |-> 202, effect |-> "none"],
   createWallet |-> [public |-> FALSE, via |-> "billing", success |-> 201, effect |-> "must"],
   balance      |-> [public |-> FALSE, via |-> "billing", success |-> 200, effect |-> "may"],
   withdraw     |-> [public |-> FALSE, via |-> "billing", success |-> 200, effect |-> "must"],
   transactions |-> [public |-> FALSE, via |-> "local",   success |-> 200, effect |-> "none"],
   payout       |-> [public |-> FALSE, via |-> "relay",   success |-> 202, effect |-> "none"],
   unrouted     |-> [public |-> TRUE,  via |-> "none",    success |-> 404, effect |-> "none"]]

Kinds == DOMAIN Routes
Via(r) == Routes[http[r].kind].via
Effect(r) == Routes[http[r].kind].effect
Unsent == [kind |-> "unrouted", token |-> FALSE, body |-> FALSE,
           stage |-> "new", told |-> 0]

GatewayTypeOK ==
  /\ http \in [HttpRequests ->
       [kind : Kinds, token : BOOLEAN, body : BOOLEAN,
        stage : {"new", "sent", "calling", "closed"},
        told : {0, 200, 201, 202, 400, 401, 404, 500, 502}]]
  /\ service \in [HttpRequests -> {"none", "working", "ok", "refused", "buffered"}]
  /\ applied \in [HttpRequests -> Nat]
  /\ walletRow \in HttpRequests \cup {0}

GatewayInit ==
  /\ http = [r \in HttpRequests |-> Unsent]
  /\ service = [r \in HttpRequests |-> "none"]
  /\ applied = [r \in HttpRequests |-> 0]
  /\ walletRow = 0

Stage(r, stage) == http[r].stage = stage
\* A request ends.  A service that is at work on it goes on; what that does
\* is of no interest when it changes nothing.
Close(r, status) ==
  http' = [http EXCEPT ![r] = [kind |-> @.kind, token |-> FALSE, body |-> FALSE,
                               stage |-> "closed", told |-> status]]
Tell(r, status) ==
  /\ Close(r, status)
  /\ service' = [service EXCEPT ![r] =
       IF @ = "working" /\ Effect(r) # "none" THEN @ ELSE "none"]

\* The next request is sent.
Send(r, kind, token, body) ==
  /\ Stage(r, "new") /\ \A q \in HttpRequests : q < r => ~Stage(q, "new")
  /\ http' = [http EXCEPT ![r] = [kind |-> kind, token |-> token, body |-> body,
                                  stage |-> "sent", told |-> 0]]
  /\ UNCHANGED <<service, applied, walletRow>>

----------------------------------------------------------------------------
(* The gateway takes a request.                                            *)

Authentic(r) == Routes[http[r].kind].public \/ http[r].token

\* The router, the Authenticator, and the checks of the body refuse; what
\* the gateway only relays it does not read.
Refuse(r) ==
  /\ Stage(r, "sent")
  /\ CASE Via(r) = "none" -> Tell(r, 404)
       [] ~Authentic(r) -> Tell(r, 401)
       [] OTHER -> ~http[r].body /\ Via(r) \in {"publish", "billing"} /\ Tell(r, 400)
  /\ UNCHANGED <<applied, walletRow>>

Accepts(r) ==
  /\ Stage(r, "sent") /\ Via(r) # "none" /\ Authentic(r)
  /\ http[r].body \/ Via(r) \notin {"publish", "billing"}

\* CancelJob and GetTransactionHistory answer without asking anyone.
AnswerLocally(r) ==
  /\ Accepts(r) /\ Via(r) = "local"
  /\ Tell(r, Routes[http[r].kind].success)
  /\ UNCHANGED <<applied, walletRow>>

\* SubmitJob answers 202 once the message is with the NATS client, to a
\* client that may have gone: it does not wait for the server.
SubmitJob(r) ==
  /\ Accepts(r) /\ Via(r) = "publish"
  /\ \/ /\ \E status \in {0, 202} : Close(r, status)
        /\ service' = [service EXCEPT ![r] = "buffered"]
     \/ Tell(r, 500)
  /\ UNCHANGED <<applied, walletRow>>

CallUpstream(r) ==
  /\ Accepts(r) /\ Via(r) \in {"relay", "billing"}
  /\ http' = [http EXCEPT ![r].stage = "calling"]
  /\ service' = [service EXCEPT ![r] = "working"]
  /\ UNCHANGED <<applied, walletRow>>

----------------------------------------------------------------------------
(* The services and NATS (external): one that is at work on a request      *)
(* finishes it whether or not the gateway still waits, and may answer with *)
(* an error after it has changed something.  A user has one wallet:        *)
(* UNIQUE(user_id, wallet_type).                                           *)

Change(r) ==
  /\ Effect(r) # "none"
  /\ http[r].kind = "createWallet" => walletRow = 0
  /\ applied' = [applied EXCEPT ![r] = @ + 1]
  /\ walletRow' = IF http[r].kind = "createWallet" THEN r ELSE walletRow

Serve(r) ==
  /\ service[r] = "working"
  /\ Change(r) \/ (Effect(r) # "must" /\ UNCHANGED <<applied, walletRow>>)
  /\ service' = [service EXCEPT ![r] = IF Stage(r, "calling") THEN "ok" ELSE "none"]
  /\ UNCHANGED http

ServeNot(r) ==
  /\ service[r] = "working"
  /\ Change(r) \/ UNCHANGED <<applied, walletRow>>
  /\ service' = [service EXCEPT ![r] = IF Stage(r, "calling") THEN "refused" ELSE "none"]
  /\ UNCHANGED http

\* The buffered message reaches the server, or is lost with the connection or
\* the gateway: core NATS does not acknowledge.
Deliver(r) ==
  /\ service[r] = "buffered"
  /\ Change(r) \/ UNCHANGED <<applied, walletRow>>
  /\ service' = [service EXCEPT ![r] = "none"]
  /\ UNCHANGED http

----------------------------------------------------------------------------
(* The answer.                                                             *)

RelayAnswer(r) ==
  /\ Stage(r, "calling")
  /\ \/ service[r] = "ok" /\ Tell(r, Routes[http[r].kind].success)
     \/ service[r] = "refused" /\ Tell(r, IF Via(r) = "relay" THEN 400 ELSE 500)
  /\ UNCHANGED <<applied, walletRow>>

\* A gateway that calls again when a call fails.
GiveUpRetry(r) ==
  /\ Stage(r, "calling") /\ applied[r] < 2
  /\ service' = [service EXCEPT ![r] = "working"]
  /\ UNCHANGED <<http, applied, walletRow>>

\* The call fails or takes 30 seconds, or its answer cannot be decoded.
GiveUp(r) ==
  /\ Stage(r, "calling")
  /\ Tell(r, IF Via(r) = "relay" THEN 502 ELSE 500)
  /\ UNCHANGED <<applied, walletRow>>

\* The client goes away, or its own 30 seconds are over: nobody is told.
ClientGone(r) ==
  /\ Stage(r, "sent") \/ Stage(r, "calling")
  /\ Tell(r, 0)
  /\ UNCHANGED <<applied, walletRow>>

GatewayNext ==
  \E r \in HttpRequests :
    \/ Refuse(r) \/ AnswerLocally(r) \/ SubmitJob(r) \/ CallUpstream(r)
    \/ Serve(r) \/ ServeNot(r) \/ Deliver(r) \/ RelayAnswer(r) \/ GiveUp(r) \/ ClientGone(r)

----------------------------------------------------------------------------
\* A request changes the platform at most once, also when the gateway or the
\* client gave up on it and the service did not.  A client that is told of
\* success gets it for a change that was made, unless it submitted a job: of
\* that the gateway only knows that it was not refused.  A job the client is
\* told was not submitted never runs.
AppliedAsTold ==
  \A r \in HttpRequests :
    /\ applied[r] <= 1
    /\ http[r].told \in 200..299 /\ Effect(r) = "must" /\ Via(r) # "publish" =>
         applied[r] = 1
    /\ http[r].told \in 400..599 /\ Via(r) = "publish" => applied[r] = 0
=============================================================================
