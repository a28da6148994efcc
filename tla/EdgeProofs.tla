----------------------------- MODULE EdgeProofs -----------------------------
(***************************************************************************)
(* The components at the platform's edge, one section each: its inductive  *)
(* invariant, that its initial states satisfy it, that each of its steps   *)
(* keeps it, and that it implies what the component promises.  The last    *)
(* section puts them together.                                             *)
(***************************************************************************)
EXTENDS MCEdge, FoldLemmas, FiniteSetTheorems, TLAPS

----------------------------------------------------------------------------
(* The API gateway and the rental CLI.                                     *)

\* What is known of one request, from its record, the service's part and the
\* number of times it was applied.  A job is with NATS or it is not: no
\* service works on it while the gateway waits.
RequestInv(h, s, a) ==
  /\ a \in {0, 1}
  /\ h.stage \in {"new", "sent"} => s = "none" /\ a = 0 /\ h.told = 0
  /\ h.stage = "calling" => Routes[h.kind].via # "publish"
  /\ s = "working" => a = 0 /\ Routes[h.kind].via # "publish"
  /\ s = "buffered" => /\ a = 0 /\ Routes[h.kind].via = "publish"
                       /\ h.stage = "closed" /\ h.told \in {0, 202}
  /\ s = "ok" /\ Routes[h.kind].effect = "must" => a = 1
  /\ /\ h.told \in {200, 201, 202} /\ Routes[h.kind].effect = "must"
     /\ Routes[h.kind].via # "publish"
     => a = 1
  /\ Routes[h.kind].via = "publish" /\ h.told \notin {0, 202} => a = 0 /\ s = "none"

\* The one row of the user's wallet is the one every answer is about.
WalletInv ==
  /\ walletRow # 0 =>
       /\ applied[walletRow] = 1
       /\ http[walletRow].kind = "createWallet"
       /\ http[walletRow].stage # "new"
  /\ \A r \in HttpRequests :
       /\ http[r].kind = "createWallet"
       /\ service[r] = "ok" \/ http[r].told = 201
       => walletRow = r

CliInv ==
  /\ asked # 0 => http[asked].stage # "new"
  /\ cli = "createWallet" => asked # 0 /\ http[asked].kind = "createWallet"
  /\ cli \in {"menu", "command"} => walletID # 0 /\ walletID = walletRow

ClientInv ==
  /\ GatewayTypeOK
  /\ RentalClientTypeOK
  /\ \A r \in HttpRequests : RequestInv(http[r], service[r], applied[r])
  /\ WalletInv
  /\ CliInv

\* What the table of routes holds.
LEMMA RoutesTyped ==
  /\ Kinds = {"login", "register", "submit", "status", "cancel", "createWallet",
              "balance", "withdraw", "transactions", "payout", "unrouted"}
  /\ \A k \in Kinds :
       /\ Routes[k].success \in {200, 201, 202, 404}
       /\ Routes[k].via \in {"none", "local", "publish", "relay", "billing"}
       /\ Routes[k].via = "local" => Routes[k].effect = "none"
  /\ Routes["createWallet"].via = "billing"
  /\ Routes["createWallet"].effect = "must"
<1>1. Kinds = {"login", "register", "submit", "status", "cancel", "createWallet",
              "balance", "withdraw", "transactions", "payout", "unrouted"}
  BY DEF Kinds, Routes
<1>2. ASSUME NEW k \in Kinds
      PROVE  /\ Routes[k].success \in {200, 201, 202, 404}
             /\ Routes[k].via \in {"none", "local", "publish", "relay", "billing"}
             /\ Routes[k].via = "local" => Routes[k].effect = "none"
  <2>1. Routes[k].success \in {200, 201, 202, 404}
    BY <1>1 DEF Routes
  <2>2. Routes[k].via \in {"none", "local", "publish", "relay", "billing"}
    BY <1>1 DEF Routes
  <2>3. Routes[k].via = "local" => Routes[k].effect = "none"
    BY <1>1 DEF Routes
  <2> QED  BY <2>1, <2>2, <2>3
<1> QED  BY <1>1, <1>2 DEF Routes

LEMMA ClientStart ==
  ASSUME RentalClientInit
  PROVE  ClientInv
BY RoutesTyped, GatewayAssumption, RentalClientAssumption
   DEF RentalClientInit, GatewayInit, ClientInv, GatewayTypeOK,
       RentalClientTypeOK, RequestInv, WalletInv, CliInv, Unsent

\* A request ends, with this left of the service's part in it.
Ends(r, status, part) ==
  Close(r, status) /\ service' = [service EXCEPT ![r] = part]

\* Nothing else changes, and it may be told of success only when its change
\* was made.
LEMMA CloseKeeps ==
  ASSUME ClientInv, NEW r \in HttpRequests, http[r].stage # "new",
         NEW status \in {0, 200, 201, 202, 400, 401, 404, 500, 502},
         NEW part \in {"none", "working", "buffered"},
         Ends(r, status, part), UNCHANGED <<applied, walletRow, clientVars>>,
         part = "working" => service[r] = "working",
         part = "buffered" =>
           /\ applied[r] = 0 /\ Via(r) = "publish" /\ status \in {0, 202},
         status \in {200, 201, 202} /\ Effect(r) = "must" /\ Via(r) # "publish" =>
           applied[r] = 1,
         Via(r) = "publish" /\ status \notin {0, 202} =>
           applied[r] = 0 /\ part = "none",
         status = 201 /\ http[r].kind = "createWallet" => walletRow = r
  PROVE  ClientInv'
<1> USE DEF ClientInv, GatewayTypeOK, RentalClientTypeOK
<1>1. /\ http'[r] = [kind |-> http[r].kind, token |-> FALSE, body |-> FALSE,
                    stage |-> "closed", told |-> status]
      /\ \A q \in HttpRequests \ {r} : http'[q] = http[q]
  BY DEF Ends, Close
<1>2. /\ service'[r] = part
      /\ \A q \in HttpRequests \ {r} : service'[q] = service[q]
  BY DEF Ends
<1>3. GatewayTypeOK'
  <2>1. http' \in [HttpRequests ->
       [kind : Kinds, token : BOOLEAN, body : BOOLEAN,
        stage : {"new", "sent", "calling", "closed"},
        told : {0, 200, 201, 202, 400, 401, 404, 500, 502}]]
    BY <1>1 DEF Ends, Close
  <2>2. service' \in [HttpRequests -> {"none", "working", "ok", "refused", "buffered"}]
    BY <1>2 DEF Ends
  <2> QED  BY <2>1, <2>2
<1>4. ASSUME NEW q \in HttpRequests
      PROVE  RequestInv(http'[q], service'[q], applied'[q])
  <2>1. CASE q # r
    BY <2>1, <1>1, <1>2
  <2>2. CASE q = r
    BY <2>2, <1>1, <1>2 DEF RequestInv, Via, Effect
  <2> QED  BY <2>1, <2>2
<1>5. WalletInv'
  <2>1. ASSUME walletRow # 0
        PROVE  /\ applied'[walletRow] = 1
               /\ http'[walletRow].kind = "createWallet"
               /\ http'[walletRow].stage # "new"
    BY <2>1, <1>1 DEF WalletInv
  <2>2. ASSUME NEW q \in HttpRequests, http'[q].kind = "createWallet",
               service'[q] = "ok" \/ http'[q].told = 201
        PROVE  walletRow = q
    BY <2>2, <1>1, <1>2 DEF WalletInv
  <2> QED  BY <2>1, <2>2 DEF WalletInv
<1>6. CliInv'
  BY <1>1 DEF CliInv, clientVars
<1> QED  BY <1>3, <1>4, <1>5, <1>6 DEF clientVars

\* A client is told: a service at work on the request goes on.
LEMMA TellKeeps ==
  ASSUME ClientInv, NEW r \in HttpRequests, http[r].stage # "new",
         NEW status \in {0, 200, 201, 202, 400, 401, 404, 500, 502},
         Tell(r, status), UNCHANGED <<applied, walletRow, clientVars>>,
         status \in {200, 201, 202} /\ Effect(r) = "must" /\ Via(r) # "publish" =>
           applied[r] = 1,
         Via(r) = "publish" /\ status \notin {0, 202} => applied[r] = 0,
         status = 201 /\ http[r].kind = "createWallet" => walletRow = r
  PROVE  ClientInv'
<1>1. PICK part \in {"none", "working"} :
        /\ service' = [service EXCEPT ![r] = part]
        /\ part = "working" => service[r] = "working"
  <2>1. service \in [HttpRequests -> {"none", "working", "ok", "refused", "buffered"}]
    BY DEF ClientInv, GatewayTypeOK
  <2>2. CASE service[r] = "working" /\ Effect(r) # "none"
    BY <2>1, <2>2 DEF Tell
  <2>3. CASE ~(service[r] = "working" /\ Effect(r) # "none")
    BY <2>1, <2>3 DEF Tell
  <2> QED  BY <2>2, <2>3
<1>2. RequestInv(http[r], service[r], applied[r])
  BY DEF ClientInv
<1>3. Via(r) = "publish" /\ status \notin {0, 202} => part = "none"
  BY <1>1, <1>2 DEF RequestInv, Via
<1>4. Ends(r, status, part) /\ part \in {"none", "working", "buffered"}
  BY <1>1 DEF Ends, Tell
<1>5. part = "buffered" =>
        /\ applied[r] = 0 /\ Via(r) = "publish" /\ status \in {0, 202}
  BY <1>1
<1>6. Via(r) = "publish" /\ status \notin {0, 202} => applied[r] = 0 /\ part = "none"
  BY <1>3
<1> QED  BY <1>1, <1>4, <1>5, <1>6, CloseKeeps

\* A request is sent.
LEMMA SendKeeps ==
  ASSUME ClientInv, NEW r \in HttpRequests, NEW k \in Kinds,
         NEW token \in BOOLEAN, NEW body \in BOOLEAN, Send(r, k, token, body)
  PROVE  /\ GatewayTypeOK'
         /\ \A q \in HttpRequests : RequestInv(http'[q], service'[q], applied'[q])
         /\ WalletInv'
         /\ http[r].stage = "new" /\ http'[r].stage # "new" /\ http'[r].kind = k
         /\ \A q \in HttpRequests \ {r} : http'[q] = http[q]
         /\ UNCHANGED walletRow
<1> USE DEF ClientInv, GatewayTypeOK
<1>1. /\ http'[r] = [kind |-> k, token |-> token, body |-> body,
                     stage |-> "sent", told |-> 0]
      /\ \A q \in HttpRequests \ {r} : http'[q] = http[q]
      /\ http[r].stage = "new"
  BY DEF Send, Stage
<1>2. UNCHANGED <<service, applied, walletRow>>
  BY DEF Send
<1>3. GatewayTypeOK'
  BY <1>1, <1>2 DEF Send
<1>4. \A q \in HttpRequests : RequestInv(http'[q], service'[q], applied'[q])
  BY <1>1, <1>2 DEF RequestInv
<1>5. WalletInv'
  BY <1>1, <1>2 DEF WalletInv, RequestInv
<1> QED  BY <1>1, <1>2, <1>3, <1>4, <1>5

\* The platform is changed for a request: once, and a wallet is its own.
LEMMA ChangeOnce ==
  ASSUME ClientInv, NEW r \in HttpRequests,
         service[r] \in {"working", "buffered"}, Change(r)
  PROVE  /\ applied[r] = 0 /\ applied'[r] = 1
         /\ \A q \in HttpRequests \ {r} : applied'[q] = applied[q]
         /\ applied' \in [HttpRequests -> Nat]
         /\ http[r].kind = "createWallet" => walletRow = 0 /\ walletRow' = r
         /\ http[r].kind # "createWallet" => walletRow' = walletRow
<1>1. applied[r] = 0 /\ applied \in [HttpRequests -> Nat]
  BY DEF ClientInv, GatewayTypeOK, RequestInv
<1> QED  BY <1>1 DEF Change

\* A service or NATS is done with a request, having changed the platform for
\* it or not.
LEMMA DoneKeeps ==
  ASSUME ClientInv, NEW r \in HttpRequests,
         service[r] \in {"working", "buffered"},
         NEW part \in {"none", "ok", "refused"},
         service' = [service EXCEPT ![r] = part],
         Change(r) \/ UNCHANGED <<applied, walletRow>>,
         part = "ok" /\ Effect(r) = "must" => Change(r),
         UNCHANGED <<http, clientVars>>
  PROVE  ClientInv'
<1> USE DEF ClientInv, GatewayTypeOK
<1>0. /\ RequestInv(http[r], service[r], applied[r])
      /\ http[r].kind \in Kinds /\ service[r] # "none"
  OBVIOUS
<1>1. /\ service'[r] = part
      /\ \A q \in HttpRequests \ {r} : service'[q] = service[q]
      /\ service' \in [HttpRequests -> {"none", "working", "ok", "refused", "buffered"}]
  OBVIOUS
<1>2. /\ applied'[r] \in {0, 1} /\ (Change(r) => applied'[r] = 1)
      /\ \A q \in HttpRequests \ {r} : applied'[q] = applied[q]
      /\ applied' \in [HttpRequests -> Nat]
  BY <1>0, ChangeOnce DEF RequestInv
<1>3. walletRow' \in HttpRequests \cup {0}
  BY ChangeOnce
<1>4. GatewayTypeOK'
  BY <1>1, <1>2, <1>3
<1>5. ASSUME NEW q \in HttpRequests
      PROVE  RequestInv(http'[q], service'[q], applied'[q])
  <2>1. CASE q # r
    BY <2>1, <1>1, <1>2
  <2>2. CASE q = r
    BY <2>2, <1>0, <1>1, <1>2 DEF RequestInv, Effect
  <2> QED  BY <2>1, <2>2
<1>6. http[r].stage # "new" /\ (http[r].told = 201 => http[r].kind # "createWallet")
  <2>1. Routes["createWallet"].via = "billing" /\ Routes["createWallet"].effect = "must"
    BY RoutesTyped
  <2> QED  BY <1>0, <2>1 DEF RequestInv
<1>7. WalletInv'
  <2>1. CASE http[r].kind = "createWallet" /\ Change(r)
    <3>1. walletRow = 0 /\ walletRow' = r /\ applied'[r] = 1
      BY <2>1, ChangeOnce
    <3>2. \A q \in HttpRequests : q # r /\ http'[q].kind = "createWallet" =>
            service'[q] # "ok" /\ http'[q].told # 201
      BY <1>1, <3>1, GatewayAssumption DEF WalletInv
    <3> QED  BY <1>6, <2>1, <3>1, <3>2, GatewayAssumption DEF WalletInv
  <2>2. CASE ~(http[r].kind = "createWallet" /\ Change(r))
    <3>1. walletRow' = walletRow
      BY <2>2, ChangeOnce
    <3>2. http[r].kind = "createWallet" => service'[r] # "ok"
      BY <1>1, <2>2, RoutesTyped DEF Effect
    <3>3. walletRow # 0 => walletRow # r
      BY <1>0 DEF WalletInv, RequestInv
    <3> QED  BY <1>1, <1>2, <3>1, <3>2, <3>3 DEF WalletInv
  <2> QED  BY <2>1, <2>2
<1>8. CliInv'
  <2>1. walletRow # 0 => walletRow' = walletRow
    BY ChangeOnce
  <2> QED  BY <2>1 DEF CliInv, clientVars
<1> QED  BY <1>4, <1>5, <1>7, <1>8 DEF RentalClientTypeOK, clientVars

LEMMA GatewayKeeps ==
  ASSUME ClientInv, GatewayNext, UNCHANGED clientVars
  PROVE  ClientInv'
<1> PICK r \in HttpRequests :
      \/ Refuse(r) \/ AnswerLocally(r) \/ SubmitJob(r) \/ CallUpstream(r)
      \/ Serve(r) \/ ServeNot(r) \/ Deliver(r) \/ RelayAnswer(r) \/ GiveUp(r)
      \/ ClientGone(r)
  BY DEF GatewayNext
<1> DEFINE kind == http[r].kind
<1>0. /\ kind \in Kinds
      /\ RequestInv(http[r], service[r], applied[r])
  BY DEF ClientInv, GatewayTypeOK
<1> HIDE DEF kind
<1>1. CASE Refuse(r)
  <2>1. PICK status \in {404, 401, 400} : Tell(r, status)
    BY <1>1 DEF Refuse
  <2>2. applied[r] = 0 /\ http[r].stage # "new"
    BY <1>0, <1>1 DEF Refuse, Stage, RequestInv
  <2> QED  BY <2>1, <2>2, <1>1, TellKeeps DEF Refuse
<1>2. CASE AnswerLocally(r)
  <2>1. /\ Routes[kind].success \in {200, 201, 202, 404}
        /\ Effect(r) = "none" /\ kind # "createWallet" /\ Via(r) # "publish"
    BY <1>0, <1>2, RoutesTyped DEF AnswerLocally, Via, Effect, kind
  <2> QED  BY <2>1, <1>2, TellKeeps DEF AnswerLocally, Accepts, Stage, kind
<1>3. CASE SubmitJob(r)
  <2>1. /\ http[r].stage # "new" /\ applied[r] = 0 /\ Via(r) = "publish"
        /\ kind # "createWallet"
    BY <1>0, <1>3, RoutesTyped
       DEF SubmitJob, Accepts, Stage, Via, RequestInv, kind
  <2>2. UNCHANGED <<applied, walletRow>>
    BY <1>3 DEF SubmitJob
  <2>3. ASSUME NEW status \in {0, 202}, Close(r, status),
               service' = [service EXCEPT ![r] = "buffered"]
        PROVE  ClientInv'
    <3> DEFINE part == "buffered"
    <3>2. Ends(r, status, part)
      BY <2>3 DEF Ends
    <3>1. /\ part \in {"none", "working", "buffered"}
          /\ part # "working"
          /\ status \in {0, 200, 201, 202, 400, 401, 404, 500, 502}
          /\ Via(r) = "publish" /\ status \in {0, 202} /\ status # 201
      BY <2>1, <2>3
    <3> HIDE DEF part
    <3> QED  BY <2>1, <2>2, <2>3, <3>1, <3>2, CloseKeeps
  <2>4. CASE Tell(r, 500)
    BY <2>1, <2>2, <2>4, TellKeeps
  <2> QED  BY <1>3, <2>3, <2>4 DEF SubmitJob
<1>4. CASE CallUpstream(r)
  <2> USE DEF ClientInv, GatewayTypeOK
  <2>1. /\ http'[r].kind = http[r].kind /\ http'[r].told = http[r].told
        /\ http[r].stage = "sent" /\ http'[r].stage = "calling"
        /\ Routes[kind].via # "publish"
        /\ http'[r] \in [kind : Kinds, token : BOOLEAN, body : BOOLEAN,
               stage : {"new", "sent", "calling", "closed"},
               told : {0, 200, 201, 202, 400, 401, 404, 500, 502}]
        /\ \A q \in HttpRequests \ {r} : http'[q] = http[q]
    BY <1>4 DEF CallUpstream, Accepts, Stage, Via, kind
  <2>2. /\ service'[r] = "working"
        /\ \A q \in HttpRequests \ {r} : service'[q] = service[q]
        /\ UNCHANGED <<applied, walletRow>>
    BY <1>4 DEF CallUpstream
  <2>3. GatewayTypeOK'
    BY <1>4, <2>1, <2>2 DEF CallUpstream
  <2>4. ASSUME NEW q \in HttpRequests
        PROVE  RequestInv(http'[q], service'[q], applied'[q])
    BY <2>1, <2>2, <1>0 DEF RequestInv, kind
  <2>5. WalletInv'
    BY <2>1, <2>2 DEF WalletInv
  <2>6. CliInv' /\ RentalClientTypeOK'
    BY <2>1, <2>2 DEF CliInv, RentalClientTypeOK, clientVars
  <2> QED  BY <2>3, <2>4, <2>5, <2>6
<1>5. CASE Serve(r)
  <2>1. PICK part \in {"none", "ok"} : service' = [service EXCEPT ![r] = part]
    BY <1>5 DEF Serve
  <2>2. /\ service[r] \in {"working", "buffered"} /\ UNCHANGED http
        /\ Change(r) \/ UNCHANGED <<applied, walletRow>>
        /\ Effect(r) = "must" => Change(r)
    BY <1>5 DEF Serve
  <2> QED  BY <2>1, <2>2, DoneKeeps
<1>6. CASE ServeNot(r)
  <2>1. PICK part \in {"none", "refused"} : service' = [service EXCEPT ![r] = part]
    BY <1>6 DEF ServeNot
  <2>2. /\ service[r] \in {"working", "buffered"} /\ UNCHANGED http
        /\ Change(r) \/ UNCHANGED <<applied, walletRow>>
    BY <1>6 DEF ServeNot
  <2> QED  BY <2>1, <2>2, DoneKeeps
<1>7. CASE RelayAnswer(r)
  <2>1. /\ http[r].stage # "new" /\ UNCHANGED <<applied, walletRow>>
        /\ Via(r) # "publish"
    BY <1>0, <1>7 DEF RelayAnswer, Stage, RequestInv, Via
  <2>2. CASE service[r] = "ok" /\ Tell(r, Routes[kind].success)
    <3>1. /\ Routes[kind].success \in {200, 201, 202, 404}
          /\ Effect(r) = "must" => applied[r] = 1
          /\ kind = "createWallet" => walletRow = r
      BY <1>0, <2>2, RoutesTyped DEF RequestInv, ClientInv, WalletInv, Effect, kind
    <3> QED  BY <2>1, <2>2, <3>1, TellKeeps DEF kind
  <2>3. CASE service[r] = "refused" /\ Tell(r, IF Via(r) = "relay" THEN 400 ELSE 500)
    <3>1. PICK status \in {400, 500} : Tell(r, status)
      BY <2>3
    <3> QED  BY <2>1, <3>1, TellKeeps
  <2> QED  BY <1>7, <2>2, <2>3 DEF RelayAnswer, kind
<1>8. CASE GiveUp(r)
  <2>1. PICK status \in {502, 500} : Tell(r, status)
    BY <1>8 DEF GiveUp
  <2>2. http[r].stage # "new" /\ Via(r) # "publish"
    BY <1>0, <1>8 DEF GiveUp, Stage, RequestInv, Via
  <2> QED  BY <2>1, <2>2, <1>8, TellKeeps DEF GiveUp
<1>9. CASE ClientGone(r)
  BY <1>9, TellKeeps DEF ClientGone, Stage
<1>10. CASE Deliver(r)
  BY <1>10, DoneKeeps DEF Deliver
<1> QED  BY <1>1, <1>2, <1>3, <1>4, <1>5, <1>6, <1>7, <1>8, <1>9, <1>10

\* The CLI sends a request.
LEMMA AskKeeps ==
  ASSUME ClientInv, NEW pc, NEW k \in Kinds, NEW body \in BOOLEAN, Ask(pc, k, body),
         UNCHANGED <<authToken, walletID>>,
         pc \in {"login", "getWallet", "createWallet", "command"},
         pc = "createWallet" => k = "createWallet",
         pc = "command" => cli = "menu"
  PROVE  ClientInv'
<1>1. PICK r \in HttpRequests : Send(r, k, authToken = "valid", body) /\ asked' = r
  BY DEF Ask
<1>2. cli' = pc /\ UNCHANGED others
  BY DEF Ask
<1> DEFINE token == authToken = "valid"
<1>3. token \in BOOLEAN /\ Send(r, k, token, body)
  BY <1>1
<1> HIDE DEF token
<1>4. /\ GatewayTypeOK'
      /\ \A q \in HttpRequests : RequestInv(http'[q], service'[q], applied'[q])
      /\ WalletInv'
      /\ http'[r].stage # "new" /\ http'[r].kind = k
      /\ UNCHANGED walletRow
  BY <1>3, SendKeeps
<1>5. CliInv'
  BY <1>1, <1>2, <1>4, GatewayAssumption DEF ClientInv, CliInv
<1>6. RentalClientTypeOK'
  BY <1>1, <1>2 DEF ClientInv, RentalClientTypeOK
<1> QED  BY <1>4, <1>5, <1>6 DEF ClientInv

LEMMA ClientKeeps ==
  ASSUME ClientInv, RentalClientNext \/ UNCHANGED rentalClientVars
  PROVE  ClientInv'
<1>0. /\ {"login", "createWallet"} \subseteq Kinds /\ CommandKinds \subseteq Kinds
      /\ "unrouted" \in Kinds /\ TRUE \in BOOLEAN /\ FALSE \in BOOLEAN
  BY RoutesTyped DEF CommandKinds
<1>1. CASE StartCLI
  BY <1>0, <1>1, AskKeeps DEF StartCLI
<1>2. CASE GetUserWallet
  BY <1>0, <1>2, AskKeeps DEF GetUserWallet
<1>3. CASE CreateWallet
  BY <1>0, <1>3, AskKeeps DEF CreateWallet
<1>4. CASE Command
  <2>1. PICK k \in CommandKinds : Ask("command", k, k # "submit")
    BY <1>4 DEF Command
  <2>2. /\ k \in Kinds /\ (k # "submit") \in BOOLEAN
        /\ cli = "menu" /\ UNCHANGED <<authToken, walletID>>
    BY <1>0, <1>4 DEF Command
  <2> DEFINE body == k # "submit"
  <2>3. body \in BOOLEAN /\ Ask("command", k, body)
    BY <2>1
  <2> HIDE DEF body
  <2> QED  BY <2>2, <2>3, AskKeeps
<1>5. CASE LoggedIn \/ WalletReady \/ CommandDone \/ Quit \/ TokenExpires
  <2> USE DEF ClientInv
  <2>1. UNCHANGED <<gatewayVars, others>>
    BY <1>5 DEF LoggedIn, WalletReady, CommandDone, Quit, TokenExpires
  <2>2. /\ GatewayTypeOK' /\ WalletInv'
        /\ \A q \in HttpRequests : RequestInv(http'[q], service'[q], applied'[q])
    BY <2>1 DEF gatewayVars, GatewayTypeOK, WalletInv
  <2>3. RentalClientTypeOK'
    BY <1>5, <2>1 DEF LoggedIn, WalletReady, CommandDone, Quit, TokenExpires, Exit,
                 RentalClientTypeOK, gatewayVars
  <2>4. CASE WalletReady
    <3>1. /\ cli = "createWallet" /\ asked # 0 /\ asked \in HttpRequests
          /\ http[asked].kind = "createWallet"
      BY <2>4 DEF WalletReady, Answered, CliInv, RentalClientTypeOK
    <3>2. ASSUME Told = 201 PROVE CliInv'
      BY <3>1, <3>2, <2>1, <2>4 DEF WalletReady, Told, WalletInv, CliInv, gatewayVars
    <3>3. ASSUME Told # 201 PROVE CliInv'
      BY <3>3, <2>1, <2>4 DEF WalletReady, CliInv, Exit
    <3>4. CliInv'
      BY <3>2, <3>3
    <3> QED  BY <2>2, <2>3, <3>4
  <2>5. CASE LoggedIn \/ CommandDone \/ Quit \/ TokenExpires
    <3>1. CliInv'
      BY <2>1, <2>5 DEF LoggedIn, CommandDone, Quit, TokenExpires, Exit, CliInv,
                        Answered, gatewayVars
    <3> QED  BY <2>2, <2>3, <3>1
  <2> QED  BY <1>5, <2>4, <2>5
<1>6. CASE OtherClient
  <2>1. PICK r \in HttpRequests, k \in Kinds, token \in BOOLEAN, body \in BOOLEAN :
          Send(r, k, token, body)
    BY <1>6 DEF OtherClient
  <2>2. /\ UNCHANGED <<cli, asked, authToken, walletID>>
        /\ others < MaxOthers /\ others' = others + 1
    BY <1>6 DEF OtherClient
  <2>3. /\ GatewayTypeOK'
        /\ \A q \in HttpRequests : RequestInv(http'[q], service'[q], applied'[q])
        /\ WalletInv'
        /\ http[r].stage = "new" /\ http'[r].stage # "new" /\ http'[r].kind = k
        /\ \A q \in HttpRequests \ {r} : http'[q] = http[q]
        /\ UNCHANGED walletRow
    BY <2>1, SendKeeps
  <2>4. CliInv'
    BY <2>2, <2>3, GatewayAssumption DEF ClientInv, CliInv, RentalClientTypeOK
  <2>5. RentalClientTypeOK'
    BY <2>2, RentalClientAssumption DEF ClientInv, RentalClientTypeOK
  <2> QED  BY <2>3, <2>4, <2>5 DEF ClientInv
<1>7. CASE GatewayNext /\ UNCHANGED clientVars
  BY <1>7, GatewayKeeps
<1>8. CASE UNCHANGED rentalClientVars
  BY <1>8 DEF rentalClientVars, gatewayVars, clientVars, ClientInv, GatewayTypeOK,
              RentalClientTypeOK, WalletInv, CliInv
<1> QED  BY <1>1, <1>2, <1>3, <1>4, <1>5, <1>6, <1>7, <1>8 DEF RentalClientNext

LEMMA ClientAnswers ==
  ASSUME ClientInv
  PROVE  AnswersTrue
<1>1. ASSUME NEW r \in HttpRequests
      PROVE  /\ applied[r] <= 1
             /\ /\ http[r].told \in 200..299 /\ Effect(r) = "must"
                /\ Via(r) # "publish"
                => applied[r] = 1
             /\ http[r].told \in 400..599 /\ Via(r) = "publish" => applied[r] = 0
  <2>1. /\ http[r].told \in {0, 200, 201, 202, 400, 401, 404, 500, 502}
        /\ RequestInv(http[r], service[r], applied[r])
    BY DEF ClientInv, GatewayTypeOK
  <2>2. http[r].told \in 200..299 => http[r].told \in {200, 201, 202}
    BY <2>1
  <2>3. http[r].told \in 400..599 => http[r].told \notin {0, 202}
    BY <2>1
  <2> QED  BY <2>1, <2>2, <2>3 DEF RequestInv, Effect, Via
<1>2. AppliedAsTold
  BY <1>1 DEF AppliedAsTold
<1>3. MenuHasWallet
  BY DEF ClientInv, CliInv, WalletInv, MenuHasWallet
<1> QED  BY <1>2, <1>3 DEF AnswersTrue

----------------------------------------------------------------------------
(* The gateway's websocket hub.                                            *)

\* Only a client that Run dropped may have its channel closed while it can
\* still be sent to, and the hub's map holds open channels only.
HubInv ==
  /\ HubTypeOK
  /\ clients \cap closed = {}
  /\ fanout \subseteq clients
  /\ run # "fanout" => fanout = {}
  /\ \A c \in Clients : reader[c] \in {"new", "joining"} => c \notin closed \cup clients
  /\ \A c \in closed \ dropped : reader[c] = "gone"
  /\ \A u \in casting : cast[u] \cap closed \subseteq dropped
  /\ LeavingIsSafe

LEMMA HubStart ==
  ASSUME HubInit
  PROVE  HubInv
<1>1. panicked \in BOOLEAN
  BY DEF HubInit
<1>2. buffered \in [Clients -> 0..SendCap] /\ broadcast \in 0..BroadcastCap
  BY HubAssumption DEF HubInit
<1> QED  BY <1>1, <1>2 DEF HubInit, HubInv, HubTypeOK, LeavingIsSafe

LEMMA RunKeeps ==
  ASSUME HubInv, ~panicked,
         \/ TakeBroadcast \/ FanoutDone \/ Stop \/ BroadcastToAll
         \/ \E c \in Clients : Connect(c) \/ Register(c) \/ Unregister(c) \/ Visit(c)
  PROVE  HubInv'
<1> USE DEF HubInv, HubTypeOK
<1>1. CASE TakeBroadcast
  BY <1>1, HubAssumption DEF TakeBroadcast, LeavingIsSafe
<1>2. CASE FanoutDone \/ Stop
  BY <1>2 DEF FanoutDone, Stop, LeavingIsSafe
<1>3. CASE BroadcastToAll
  BY <1>3, HubAssumption DEF BroadcastToAll, LeavingIsSafe
<1>4. ASSUME NEW c \in Clients, Connect(c) PROVE HubInv'
  BY <1>4 DEF Connect, LeavingIsSafe
<1>5. ASSUME NEW c \in Clients, Register(c) PROVE HubInv'
  BY <1>5 DEF Register, LeavingIsSafe
<1>6. ASSUME NEW c \in Clients, Unregister(c) PROVE HubInv'
  BY <1>6 DEF Unregister, LeavingIsSafe
<1>7. ASSUME NEW c \in Clients, Visit(c) PROVE HubInv'
  <2>1. /\ run = "fanout" /\ c \in clients /\ fanout' = fanout \ {c}
        /\ UNCHANGED <<broadcast, run, cast, casting, reader, writer>>
    BY <1>7 DEF Visit
  <2>2. CASE buffered[c] < SendCap
    <3>1. /\ buffered' = [buffered EXCEPT ![c] = @ + 1]
          /\ UNCHANGED <<clients, closed, dropped, panicked>>
      BY <1>7, <2>2 DEF Visit
    <3>2. buffered' \in [Clients -> 0..SendCap]
      BY <2>2, <3>1, HubAssumption
    <3> QED  BY <2>1, <3>1, <3>2 DEF LeavingIsSafe
  <2>3. CASE ~(buffered[c] < SendCap)
    <3>1. /\ closed' = closed \cup {c} /\ dropped' = dropped \cup {c}
          /\ clients' = clients \ {c} /\ UNCHANGED buffered
          /\ panicked' \in BOOLEAN
      BY <1>7, <2>3 DEF Visit
    <3> QED  BY <2>1, <3>1 DEF LeavingIsSafe
  <2> QED  BY <2>2, <2>3
<1> QED  BY <1>1, <1>2, <1>3, <1>4, <1>5, <1>6, <1>7

LEMMA CastKeeps ==
  ASSUME HubInv, ~panicked, NEW u \in UserCasts,
         \/ BroadcastToUser(u) \/ CastDone(u)
         \/ \E c \in Clients : CastVisit(u, c)
  PROVE  HubInv'
<1> USE DEF HubInv, HubTypeOK
<1>1. CASE BroadcastToUser(u)
  BY <1>1 DEF BroadcastToUser, LeavingIsSafe
<1>2. CASE CastDone(u)
  BY <1>2 DEF CastDone, LeavingIsSafe
<1>3. ASSUME NEW c \in Clients, CastVisit(u, c) PROVE HubInv'
  <2>1. /\ u \in casting /\ c \in cast[u]
        /\ cast' = [cast EXCEPT ![u] = @ \ {c}]
        /\ UNCHANGED <<clients, closed, broadcast, run, fanout, casting, reader,
                       writer, dropped>>
    BY <1>3 DEF CastVisit
  <2>2. buffered' \in [Clients -> 0..SendCap]
    BY <1>3, HubAssumption DEF CastVisit
  <2>4. panicked' \in BOOLEAN
    BY <1>3, Zenon DEF CastVisit
  <2>3. panicked' => c \in dropped
    BY <1>3, <2>1 DEF CastVisit
  <2> QED  BY <2>1, <2>2, <2>3, <2>4 DEF LeavingIsSafe
<1> QED  BY <1>1, <1>2, <1>3

LEMMA PumpKeeps ==
  ASSUME HubInv, ~panicked, NEW c \in Clients,
         Ping(c) \/ Pong(c) \/ ReadFails(c) \/ Flush(c) \/ WriterEnds(c)
  PROVE  HubInv'
<1> USE DEF HubInv, HubTypeOK
<1>1. CASE Ping(c)
  BY <1>1 DEF Ping, LeavingIsSafe
<1>2. CASE Pong(c)
  <2>1. /\ reader[c] = "pinging"
        /\ UNCHANGED <<clients, closed, broadcast, run, fanout, cast, casting,
                       writer, dropped>>
    BY <1>2 DEF Pong
  <2>4. panicked' \in BOOLEAN
    BY <1>2, Zenon DEF Pong
  <2>2. /\ buffered' \in [Clients -> 0..SendCap]
        /\ reader' = reader \/ reader' = [reader EXCEPT ![c] = "reading"]
    BY <1>2, HubAssumption DEF Pong
  <2>3. panicked' => c \in dropped
    BY <1>2 DEF Pong
  <2> QED  BY <2>1, <2>2, <2>3, <2>4 DEF LeavingIsSafe
<1>3. CASE ReadFails(c)
  BY <1>3 DEF ReadFails, LeavingIsSafe
<1>4. CASE Flush(c)
  BY <1>4, HubAssumption DEF Flush, LeavingIsSafe
<1>5. CASE WriterEnds(c)
  BY <1>5 DEF WriterEnds, LeavingIsSafe
<1> QED  BY <1>1, <1>2, <1>3, <1>4, <1>5

LEMMA HubKeeps ==
  ASSUME HubInv, HubNext \/ UNCHANGED hubVars
  PROVE  HubInv'
<1>1. CASE HubNext
  BY <1>1, RunKeeps, CastKeeps, PumpKeeps DEF HubNext
<1>2. CASE UNCHANGED hubVars
  BY <1>2 DEF hubVars, HubInv, HubTypeOK, LeavingIsSafe
<1> QED  BY <1>1, <1>2

----------------------------------------------------------------------------
(* The GPU monitoring service.                                             *)

Records == [a : {0, 1}, b : {0, 1}]

MonitorTypeOK ==
  /\ feedHandler \in [Viewers -> {"none", "greet", "greeting", "read", "panicked",
                                  "leave", "left"}]
  /\ writers \in [Viewers -> SUBSET {"handler", "caster"}]
  /\ gpu \in Records /\ held \in [live : BOOLEAN, rec : Records]
  /\ updating \in BOOLEAN /\ inPlace \in BOOLEAN

\* A record is whole unless it is being updated, and stays so under a reader
\* that holds the lock.
RecordInv ==
  /\ ~updating => gpu.a = gpu.b
  /\ restField # NoRest => ~updating /\ restField = gpu.a

\* What the broadcaster encodes is whole unless an update wrote into it.
MessageInv ==
  /\ held.live /\ ~inPlace => ~updating
  /\ ~held.live => held.rec.a = held.rec.b
  /\ \A v \in Viewers : "caster" \in writers[v] =>
       /\ caster = "sending" /\ v \in todo
       /\ ~inPlace => firstField = Seen.a

MonitorInv ==
  MonitorTypeOK /\ RecordInv /\ MessageInv /\ NoDeadViewers /\ AnswersWhole

LEMMA MonitorStart ==
  ASSUME MonitorInit
  PROVE  MonitorInv
BY DEF MonitorInit, MonitorInv, MonitorTypeOK, RecordInv, MessageInv, NoDeadViewers,
       AnswersWhole, Records, Record, NoMessage, NoRest, Seen

\* A handler of one viewer, and the viewer itself.
LEMMA ViewerKeeps ==
  ASSUME MonitorInv, NEW v \in Viewers,
         \/ Upgrade(v) \/ Greet(v) \/ Greeted(v) \/ Overlap(v) \/ FeedReadFails(v)
         \/ Leave(v) \/ PeerChanges(v)
  PROVE  MonitorInv'
<1> USE DEF MonitorInv, MonitorTypeOK
<1>1. UNCHANGED <<casterVars, dataVars, torn>>
  BY DEF Upgrade, Greet, Greeted, Overlap, FeedReadFails, Leave, PeerChanges
<1>2. MonitorTypeOK' /\ NoDeadViewers'
  BY <1>1 DEF Upgrade, Greet, Greeted, Overlap, FeedReadFails, Leave, PeerChanges,
              NoDeadViewers, casterVars, dataVars
<1>3. RecordInv' /\ AnswersWhole'
  BY <1>1 DEF RecordInv, AnswersWhole, casterVars, dataVars
<1>4. \A u \in Viewers : "caster" \in writers'[u] => "caster" \in writers[u]
  BY DEF Upgrade, Greet, Greeted, Overlap, FeedReadFails, Leave, PeerChanges
<1>5. MessageInv'
  BY <1>1, <1>4 DEF MessageInv, Seen, casterVars, dataVars
<1> QED  BY <1>2, <1>3, <1>5

LEMMA CasterKeeps ==
  ASSUME MonitorInv,
         \/ Copy \/ Broadcast \/ BroadcastEnd
         \/ \E v \in Viewers : WriteBegin(v) \/ WriteEnd(v)
  PROVE  MonitorInv'
<1> USE DEF MonitorInv, MonitorTypeOK, casterVars, dataVars, viewerVars
<1>1. CASE Copy
  <2>1. MonitorTypeOK'
    BY <1>1 DEF Copy
  <2>2. \A v \in Viewers : "caster" \notin writers'[v]
    BY <1>1 DEF Copy, MessageInv
  <2> QED  BY <1>1, <2>1, <2>2 DEF Copy, RecordInv, MessageInv, NoDeadViewers, AnswersWhole
<1>2. CASE Broadcast
  <2>1. MonitorTypeOK'
    BY <1>2 DEF Broadcast
  <2>2. \A v \in Viewers : "caster" \notin writers'[v]
    BY <1>2 DEF Broadcast, MessageInv
  <2> QED  BY <1>2, <2>1, <2>2 DEF Broadcast, RecordInv, MessageInv, NoDeadViewers, AnswersWhole
<1>3. CASE BroadcastEnd
  <2>1. MonitorTypeOK'
    BY <1>3 DEF BroadcastEnd, NoMessage, Record, Records
  <2>2. \A v \in Viewers : "caster" \notin writers'[v]
    BY <1>3 DEF BroadcastEnd, MessageInv
  <2>3. MessageInv'
    BY <1>3, <2>2 DEF BroadcastEnd, MessageInv, NoMessage, Record
  <2> QED  BY <1>3, <2>1, <2>3 DEF BroadcastEnd, RecordInv, NoDeadViewers, AnswersWhole
<1>4. ASSUME NEW v \in Viewers, WriteBegin(v) PROVE MonitorInv'
  <2>1. MonitorTypeOK'
    BY <1>4 DEF WriteBegin
  <2>2. MessageInv'
    <3>1. /\ UNCHANGED <<caster, todo, held, inPlace, gpu, updating>>
          /\ caster = "sending" /\ v \in todo
          /\ firstField' = Seen.a
          /\ \A u \in Viewers \ {v} : "caster" \notin writers'[u]
      BY <1>4 DEF WriteBegin
    <3> QED  BY <3>1 DEF MessageInv, Seen
  <2> QED  BY <1>4, <2>1, <2>2 DEF WriteBegin, RecordInv, NoDeadViewers, AnswersWhole
<1>5. ASSUME NEW v \in Viewers, WriteEnd(v) PROVE MonitorInv'
  <2>1. MonitorTypeOK'
    BY <1>5 DEF WriteEnd
  <2>2. /\ UNCHANGED <<feedHandler, caster, held, firstField, inPlace, gpu, updating,
                       restField>>
        /\ "caster" \in writers[v]
        /\ "caster" \notin writers'[v] /\ todo' = todo \ {v}
        /\ \A u \in Viewers \ {v} : writers'[u] = writers[u]
    BY <1>5 DEF WriteEnd
  <2>3. MessageInv' /\ RecordInv'
    BY <2>2 DEF MessageInv, RecordInv, Seen
  <2>4. feedClients' \subseteq feedClients /\ open' \subseteq open
    BY <1>5 DEF WriteEnd
  <2>5. NoDeadViewers'
    BY <2>2, <2>4 DEF NoDeadViewers
  <2>6. ~inPlace => firstField = Seen.b
    BY <2>2 DEF MessageInv, RecordInv, Seen
  <2>7. torn' = torn \/ (torn' = torn \cup {"viewer"} /\ firstField # Seen.b)
    BY <1>5 DEF WriteEnd
  <2>8. AnswersWhole'
    BY <2>2, <2>6, <2>7 DEF AnswersWhole
  <2> QED  BY <2>1, <2>3, <2>5, <2>8
<1> QED  BY <1>1, <1>2, <1>3, <1>4, <1>5

LEMMA DataKeeps ==
  ASSUME MonitorInv,
         UpdateBegin \/ UpdateFinish \/ MockUpdate \/ RestBegin \/ RestEnd
  PROVE  MonitorInv'
<1> USE DEF MonitorInv, MonitorTypeOK, casterVars, dataVars, viewerVars
<1>0. /\ UNCHANGED <<feedClients, feedHandler, open, writers, caster, todo, firstField>>
      /\ NoDeadViewers'
  BY DEF UpdateBegin, UpdateFinish, MockUpdate, RestBegin, RestEnd, NoDeadViewers
<1>1. gpu.a \in {0, 1} /\ gpu.b \in {0, 1}
  BY DEF Records
<1>2. CASE UpdateBegin
  <2>1. (gpu.a + 1) % 2 \in {0, 1}
    BY <1>1
  <2>2. gpu' = [a |-> (gpu.a + 1) % 2, b |-> gpu.b]
    BY <1>2 DEF UpdateBegin, Records
  <2>3. MonitorTypeOK'
    BY <1>0, <1>1, <1>2, <2>1, <2>2 DEF UpdateBegin, Records
  <2>4. RecordInv' /\ AnswersWhole'
    BY <1>2 DEF UpdateBegin, RecordInv, AnswersWhole
  <2>5. MessageInv'
    BY <1>0, <1>2 DEF UpdateBegin, MessageInv, Seen
  <2> QED  BY <1>0, <2>3, <2>4, <2>5
<1>3. CASE UpdateFinish
  <2>1. MonitorTypeOK'
    BY <1>0, <1>1, <1>3 DEF UpdateFinish, Records, Record
  <2>2. RecordInv' /\ AnswersWhole'
    BY <1>3 DEF UpdateFinish, RecordInv, AnswersWhole, Record
  <2>3. MessageInv'
    BY <1>0, <1>3 DEF UpdateFinish, MessageInv, Seen
  <2> QED  BY <1>0, <2>1, <2>2, <2>3
<1>4. CASE MockUpdate
  <2>1. (gpu.a + 1) % 2 \in {0, 1}
    BY <1>1
  <2>2. MonitorTypeOK'
    BY <1>0, <1>4, <2>1 DEF MockUpdate, Records, Record
  <2>3. RecordInv' /\ AnswersWhole'
    BY <1>4 DEF MockUpdate, RecordInv, AnswersWhole, Record
  <2>4. /\ ~held'.live /\ held'.rec = Seen
        /\ gpu.a = gpu.b
    BY <1>4 DEF MockUpdate, Seen, RecordInv
  <2>5. MessageInv'
    BY <1>0, <1>4, <2>4 DEF MockUpdate, MessageInv, Seen
  <2> QED  BY <1>0, <2>2, <2>3, <2>5
<1>5. CASE RestBegin \/ RestEnd
  <2>1. MonitorTypeOK' /\ RecordInv'
    BY <1>0, <1>5 DEF RestBegin, RestEnd, RecordInv
  <2>2. AnswersWhole'
    BY <1>5 DEF RestBegin, RestEnd, RecordInv, AnswersWhole
  <2>3. MessageInv'
    BY <1>0, <1>5 DEF RestBegin, RestEnd, MessageInv, Seen
  <2> QED  BY <1>0, <2>1, <2>2, <2>3
<1> QED  BY <1>2, <1>3, <1>4, <1>5

LEMMA MonitorKeeps ==
  ASSUME MonitorInv, MonitorNext \/ UNCHANGED monitorVars
  PROVE  MonitorInv'
<1>1. CASE MonitorNext
  BY <1>1, ViewerKeeps, CasterKeeps, DataKeeps DEF MonitorNext
<1>2. CASE UNCHANGED monitorVars
  BY <1>2 DEF monitorVars, viewerVars, casterVars, dataVars, MonitorInv, MonitorTypeOK,
              RecordInv, MessageInv, NoDeadViewers, AnswersWhole, Seen
<1> QED  BY <1>1, <1>2

----------------------------------------------------------------------------
(* The session middlewares of the Kratos integration.                      *)

CookieVisit == [at : {"new", "lookup", "ask", "store", "passed", "refused"},
          part : Identities \cup {NoIdentity} \cup {CookieID[s] : s \in Identities},
          of : Identities \cup {NoIdentity}, required : BOOLEAN, late : BOOLEAN,
          as : Identities \cup {NoIdentity}]

\* What is known of one request: a session that had ended when its cookie came
\* stays ended, and the request goes to the store of copies only with a
\* session that was vouched for, by its own cookie in time or by a copy.
VisitInv(v) ==
  /\ v.late => v.of \in Identities /\ kratos[v.of] = "ended"
  /\ v.at = "store" \/ v.as # NoIdentity =>
       v.as \in vouched /\ ((v.of = v.as /\ ~v.late) \/ v.part = v.as)

KratosInv ==
  /\ KratosTypeOK
  /\ visit \in [CookieRequests -> CookieVisit]
  /\ copies \subseteq vouched
  /\ \A r \in CookieRequests : VisitInv(visit[r])

LEMMA KratosStart ==
  ASSUME KratosInit
  PROVE  KratosInv
<1>1. \A r \in CookieRequests : visit[r] = NoVisit
  BY DEF KratosInit
<1>2. /\ NoVisit.at = "new" /\ ~NoVisit.late
      /\ NoVisit.of = NoIdentity /\ NoVisit.as = NoIdentity
  BY DEF NoVisit
<1>3. NoVisit \in CookieVisit
  BY DEF NoVisit, CookieVisit, NoIdentity
<1>4. visit \in [CookieRequests -> CookieVisit]
  BY <1>3 DEF KratosInit
<1> QED  BY <1>1, <1>2, <1>4 DEF KratosInit, KratosInv, KratosTypeOK, VisitInv

\* One request changes, and what is known of it holds of what it becomes.
LEMMA VisitKeeps ==
  ASSUME KratosInv, NEW r \in CookieRequests, NEW v \in CookieVisit,
         visit' = [visit EXCEPT ![r] = v], UNCHANGED kratos,
         vouched \subseteq vouched', vouched' \subseteq Identities,
         copies' \subseteq vouched', VisitInv(v)'
  PROVE  KratosInv'
<1>1. /\ visit'[r] = v /\ visit' \in [CookieRequests -> CookieVisit]
      /\ \A q \in CookieRequests \ {r} : visit'[q] = visit[q]
  BY DEF KratosInv
<1>2. ASSUME NEW q \in CookieRequests PROVE VisitInv(visit[q])'
  <2>1. VisitInv(visit[q])
    BY DEF KratosInv
  <2>2. CASE q = r
    BY <1>1, <2>2 DEF VisitInv
  <2>3. CASE q # r
    <3>1. visit'[q] = visit[q]
      BY <1>1, <2>3
    <3> QED  BY <2>1, <3>1 DEF VisitInv
  <2> QED  BY <2>2, <2>3
<1>3. KratosTypeOK'
  BY <1>1 DEF KratosInv, KratosTypeOK, CookieVisit
<1> QED  BY <1>1, <1>2, <1>3 DEF KratosInv

\* A request that moves on, without a session or with the one it has.
LEMMA GoesToKeeps ==
  ASSUME KratosInv, NEW r \in CookieRequests,
         NEW at \in {"ask", "passed", "refused"}, GoesTo(r, at),
         UNCHANGED <<kratos, vouched>>, copies' \subseteq vouched
  PROVE  KratosInv'
<1> DEFINE v == [visit[r] EXCEPT !.at = at]
<1>1. visit[r] \in CookieVisit /\ VisitInv(visit[r])
  BY DEF KratosInv
<1>2. v \in CookieVisit /\ v.at = at
  BY <1>1 DEF CookieVisit
<1>3. /\ v.of = visit[r].of /\ v.late = visit[r].late
      /\ v.as = visit[r].as /\ v.part = visit[r].part
  BY <1>1 DEF CookieVisit
<1>4. visit' = [visit EXCEPT ![r] = v] /\ vouched \subseteq Identities
  BY DEF GoesTo, KratosInv, KratosTypeOK
<1> HIDE DEF v
<1>5. PICK w \in CookieVisit : w = v
  BY <1>2
<1>6. VisitInv(w)'
  BY <1>1, <1>2, <1>3, <1>5 DEF VisitInv
<1> QED  BY <1>4, <1>5, <1>6, VisitKeeps

\* A request that goes on as the user of a session.
LEMMA GoesAsKeeps ==
  ASSUME KratosInv, NEW r \in CookieRequests, NEW s \in Identities, GoesAs(r, s),
         UNCHANGED <<kratos, copies>>, vouched' = vouched \cup {s},
         (visit[r].of = s /\ ~visit[r].late) \/ visit[r].part = s
  PROVE  KratosInv'
<1> DEFINE u == [visit[r] EXCEPT !.at = "store"]
           v == [u EXCEPT !.as = s]
<1>1. visit[r] \in CookieVisit /\ VisitInv(visit[r])
  BY DEF KratosInv
<1>2. /\ u \in CookieVisit /\ u.of = visit[r].of /\ u.late = visit[r].late
      /\ u.part = visit[r].part
  BY <1>1 DEF CookieVisit
<1>3. v = [visit[r] EXCEPT !.at = "store", !.as = s]
  OBVIOUS
<1> HIDE DEF u
<1>4. /\ v \in CookieVisit /\ v.as = s /\ v.of = visit[r].of /\ v.late = visit[r].late
      /\ v.part = visit[r].part
  BY <1>2 DEF CookieVisit
<1>5. /\ visit' = [visit EXCEPT ![r] = v] /\ vouched \subseteq Identities
      /\ copies \subseteq vouched
  BY <1>3 DEF GoesAs, KratosInv, KratosTypeOK
<1> HIDE DEF v
<1>6. PICK w \in CookieVisit : w = v
  BY <1>4
<1>7. VisitInv(w)'
  BY <1>1, <1>4, <1>6 DEF VisitInv
<1> QED  BY <1>5, <1>6, <1>7, VisitKeeps

LEMMA KratosKeeps ==
  ASSUME KratosInv, KratosNext \/ UNCHANGED kratosVars
  PROVE  KratosInv'
<1>t. vouched \subseteq Identities /\ copies \subseteq vouched
  BY DEF KratosInv, KratosTypeOK
<1>1. CASE KratosSessions
  <2>1. PICK s \in Identities :
          \/ kratos[s] = "none" /\ kratos' = [kratos EXCEPT ![s] = "active"]
          \/ kratos[s] = "active" /\ kratos' = [kratos EXCEPT ![s] = "ended"]
    BY <1>1 DEF KratosSessions
  <2>2. /\ UNCHANGED <<copies, visit, vouched>>
        /\ \A q \in Identities : kratos[q] = "ended" => kratos'[q] = "ended"
        /\ kratos' \in [Identities -> {"none", "active", "ended"}]
    BY <1>1, <2>1 DEF KratosSessions, KratosInv, KratosTypeOK
  <2> QED  BY <2>2 DEF KratosInv, KratosTypeOK, VisitInv
<1>2. ASSUME NEW r \in CookieRequests, ComesIn(r) PROVE KratosInv'
  <2>1. PICK s \in Identities, required \in BOOLEAN :
          \/ visit' = [visit EXCEPT ![r] =
               [at |-> "lookup", part |-> CookieID[s], of |-> s, required |-> required,
                late |-> kratos[s] = "ended", as |-> NoIdentity]]
          \/ visit' = [visit EXCEPT ![r] =
               [at |-> "lookup", part |-> s, of |-> NoIdentity, required |-> required,
                late |-> FALSE, as |-> NoIdentity]]
    BY <1>2 DEF ComesIn
  <2> DEFINE own == [at |-> "lookup", part |-> CookieID[s], of |-> s, required |-> required,
                     late |-> kratos[s] = "ended", as |-> NoIdentity]
             made == [at |-> "lookup", part |-> s, of |-> NoIdentity, required |-> required,
                      late |-> FALSE, as |-> NoIdentity]
  <2>2. /\ own \in CookieVisit /\ own.at = "lookup" /\ own.as = NoIdentity /\ own.of = s
        /\ own.late => kratos[s] = "ended"
    BY DEF CookieVisit
  <2>3. made \in CookieVisit /\ made.at = "lookup" /\ made.as = NoIdentity /\ ~made.late
    BY DEF CookieVisit
  <2>4. UNCHANGED <<kratos, copies, vouched>>
    BY <1>2 DEF ComesIn
  <2>5. visit' = [visit EXCEPT ![r] = own] \/ visit' = [visit EXCEPT ![r] = made]
    BY <2>1
  <2> HIDE DEF own, made
  <2>6. PICK w \in CookieVisit : w \in {own, made} /\ visit' = [visit EXCEPT ![r] = w]
    BY <2>2, <2>3, <2>5
  <2>7. VisitInv(w)'
    BY <2>2, <2>3, <2>4, <2>6 DEF VisitInv
  <2> QED  BY <1>t, <2>4, <2>6, <2>7, VisitKeeps
<1>3. ASSUME NEW r \in CookieRequests, GetCachedSession(r) PROVE KratosInv'
  <2>1. UNCHANGED <<kratos, copies, vouched>>
    BY <1>3 DEF GetCachedSession
  <2>2. CASE visit[r].part \in copies /\ GoesAs(r, visit[r].part)
    BY <1>t, <2>1, <2>2, GoesAsKeeps
  <2>3. CASE GoesTo(r, "ask")
    BY <1>t, <2>1, <2>3, GoesToKeeps
  <2> QED  BY <1>3, <2>2, <2>3 DEF GetCachedSession
<1>4. ASSUME NEW r \in CookieRequests, ValidateSession(r) PROVE KratosInv'
  <2>1. UNCHANGED <<kratos, copies>> /\ VisitInv(visit[r])
    BY <1>4 DEF ValidateSession, KratosInv
  <2>2. CASE /\ visit[r].of \in Identities /\ kratos[visit[r].of] = "active"
             /\ GoesAs(r, visit[r].of) /\ vouched' = vouched \cup {visit[r].of}
    <3>1. ~visit[r].late
      BY <2>1, <2>2 DEF VisitInv
    <3> QED  BY <2>1, <2>2, <3>1, GoesAsKeeps
  <2>3. CASE Unknown(r) /\ UNCHANGED vouched
    <3>1. PICK at \in {"refused", "passed"} : GoesTo(r, at)
      BY <2>3 DEF Unknown
    <3> QED  BY <1>t, <2>1, <2>3, <3>1, GoesToKeeps
  <2> QED  BY <1>4, <2>2, <2>3 DEF ValidateSession
<1>5. ASSUME NEW r \in CookieRequests, CacheSession(r) PROVE KratosInv'
  <2>1. /\ visit[r].at = "store" /\ UNCHANGED <<kratos, vouched>> /\ GoesTo(r, "passed")
        /\ copies' \subseteq copies \cup {visit[r].as}
    BY <1>5 DEF CacheSession, Visits
  <2>2. visit[r].as \in vouched
    BY <2>1 DEF KratosInv, VisitInv
  <2> QED  BY <1>t, <2>1, <2>2, GoesToKeeps
<1>6. CASE UNCHANGED kratosVars
  BY <1>6 DEF kratosVars, KratosInv, KratosTypeOK, VisitInv
<1> QED  BY <1>1, <1>2, <1>3, <1>4, <1>5, <1>6 DEF KratosNext

LEMMA KratosKnown ==
  ASSUME KratosInv
  PROVE  KnownWasVouched
BY DEF KratosInv, VisitInv, KnownWasVouched

----------------------------------------------------------------------------
(* The provider daemon's task feed.                                        *)

Started == {l \in FetchLoops : loop[l] # "off"}

\* One loop was started for every subscription that succeeded.
FeedInv ==
  /\ loop \in [FetchLoops -> {"off", "look", "renew", "fetch", "handle", "ended"}]
  /\ Cardinality(Started) = subscribed
  /\ mainLine = "serving" => Looping # {}

LEMMA FeedStart ==
  ASSUME TaskFeedInit
  PROVE  FeedInv
<1>1. Started = {} /\ mainLine = "starting"
  BY DEF TaskFeedInit, Started
<1> QED  BY <1>1, FS_EmptySet DEF TaskFeedInit, FeedInv

\* A loop is started with the subscription, or none with a failure; `loops' are
\* the loops as the calling goroutine leaves them.
LEMMA SubscribeKeeps ==
  ASSUME FeedInv, NEW loops,
         loops \in [FetchLoops -> {"off", "look", "renew", "fetch", "handle", "ended"}],
         \A l \in FetchLoops : loops[l] = "off" <=> loop[l] = "off",
         \A l \in Looping : loops[l] \in {"look", "renew", "fetch", "handle"},
         \/ StartSubscription(loops)
         \/ SubscriptionFails(loops) /\ (mainLine' = "serving" => mainLine = "serving")
  PROVE  FeedInv'
<1>1. CASE StartSubscription(loops)
  <2>1. PICK l \in Unstarted : loop' = [loops EXCEPT ![l] = "look"]
    BY <1>1 DEF StartSubscription
  <2>2. /\ loop' \in [FetchLoops -> {"off", "look", "renew", "fetch", "handle", "ended"}]
        /\ l \in FetchLoops /\ l \notin Started
        /\ loop'[l] = "look"
    BY <2>1 DEF FeedInv, Unstarted, Started
  <2>3. Started' = Started \cup {l}
    BY <2>1, <2>2 DEF Started
  <2>4. IsFiniteSet(Started)
    BY TaskFeedAssumption, FS_Subset DEF Started
  <2>5. Cardinality(Started') = subscribed'
    BY <1>1, <2>2, <2>3, <2>4, FS_AddElement DEF FeedInv, StartSubscription
  <2>6. l \in Looping'
    BY <2>2 DEF Looping
  <2> QED  BY <2>2, <2>5, <2>6 DEF FeedInv
<1>2. CASE SubscriptionFails(loops) /\ (mainLine' = "serving" => mainLine = "serving")
  <2>1. loop' = loops /\ UNCHANGED subscribed
    BY <1>2 DEF SubscriptionFails
  <2>2. Started' = Started /\ Looping \subseteq Looping'
    BY <2>1 DEF Started, Looping
  <2> QED  BY <1>2, <2>1, <2>2 DEF FeedInv
<1> QED  BY <1>1, <1>2

LEMMA FeedKeeps ==
  ASSUME FeedInv, TaskFeedNext \/ UNCHANGED feedVars
  PROVE  FeedInv'
<1>0. /\ loop \in [FetchLoops -> {"off", "look", "renew", "fetch", "handle", "ended"}]
      /\ \A l \in FetchLoops : loop[l] = "off" <=> loop[l] = "off"
      /\ \A l \in Looping : loop[l] \in {"look", "renew", "fetch", "handle"}
  BY DEF FeedInv, Looping
<1>1. CASE LinkChanges \/ StopFeed \/ FeedClosed \/ UNCHANGED feedVars
  <2>1. UNCHANGED <<loop, subscribed>> /\ (mainLine' = "serving" => mainLine = "serving")
    BY <1>1 DEF LinkChanges, StopFeed, FeedClosed, feedVars
  <2> QED  BY <2>1 DEF FeedInv, Started, Looping
<1>2. CASE StartListening
  <2>1. \/ StartSubscription(loop)
        \/ SubscriptionFails(loop) /\ (mainLine' = "serving" => mainLine = "serving")
    BY <1>2 DEF StartListening
  <2> QED  BY <1>0, <2>1, SubscribeKeeps
<1>3. CASE Resubscribe
  <2>1. \/ StartSubscription(loop)
        \/ SubscriptionFails(loop) /\ (mainLine' = "serving" => mainLine = "serving")
    BY <1>3 DEF Resubscribe
  <2> QED  BY <1>0, <2>1, SubscribeKeeps
<1>4. ASSUME NEW l \in FetchLoops, Renew(l) PROVE FeedInv'
  <2> DEFINE loops == [loop EXCEPT ![l] = "look"]
  <2>1. /\ loops \in [FetchLoops -> {"off", "look", "renew", "fetch", "handle", "ended"}]
        /\ \A k \in FetchLoops : loops[k] = "off" <=> loop[k] = "off"
        /\ \A k \in Looping : loops[k] \in {"look", "renew", "fetch", "handle"}
    BY <1>0, <1>4 DEF Renew, Looping
  <2>2. \/ StartSubscription(loops)
        \/ SubscriptionFails(loops) /\ (mainLine' = "serving" => mainLine = "serving")
    BY <1>4 DEF Renew
  <2> HIDE DEF loops
  <2> QED  BY <2>1, <2>2, SubscribeKeeps
<1>5. ASSUME NEW l \in FetchLoops, Look(l) \/ Fetch(l) \/ Handled(l) PROVE FeedInv'
  <2>1. /\ loop' \in [FetchLoops -> {"off", "look", "renew", "fetch", "handle", "ended"}]
        /\ UNCHANGED <<subscribed, mainLine>>
        /\ loop[l] # "off" /\ loop'[l] # "off"
        /\ mainLine = "serving" => loop'[l] \in {"look", "renew", "fetch", "handle"}
        /\ \A k \in FetchLoops \ {l} : loop'[k] = loop[k]
    BY <1>0, <1>5 DEF Look, Fetch, Handled
  <2>2. Started' = Started
    BY <2>1 DEF Started
  <2>3. mainLine = "serving" => l \in Looping'
    BY <2>1 DEF Looping
  <2> QED  BY <2>1, <2>2, <2>3 DEF FeedInv
<1> QED  BY <1>1, <1>2, <1>3, <1>4, <1>5 DEF TaskFeedNext

LEMMA FeedListens ==
  ASSUME FeedInv
  PROVE  FeedAlive
<1>1. Handling \subseteq Started /\ IsFiniteSet(Started)
  BY TaskFeedAssumption, FS_Subset DEF Handling, Started
<1>2. Cardinality(Handling) <= Cardinality(Started)
  BY <1>1, FS_Subset
<1> QED  BY <1>2 DEF FeedInv, FeedAlive

----------------------------------------------------------------------------
(* The provider daemon's configuration.                                    *)

Entries == UNION {[S -> Entry] : S \in SUBSET ConfigGPUs}

\* A configuration in which no field counts as missing.
IsSet(c) == c.own # 0 /\ c.pref # 0

SettingsTyped ==
  /\ file \in [state : {"absent", "empty", "whole"}, fields : Config]
  /\ promised \in Config /\ IsSet(promised)
  /\ process \in [Processes ->
       [at : {"new", "load", "create", "fill", "run", "save", "write", "running", "exited"},
        command : Commands, copy : Config]]
  /\ \A p \in Processes : process[p].at \in {"save", "write"} =>
       process[p].command.name \in {"update", "gpu"}

\* What a process that is alone has loaded, and what it will write.
ProcessInv(x) ==
  /\ x.at \in {"create", "fill"} => x.copy = DefaultConfig /\ promised = DefaultConfig
  /\ x.at = "run" => x.copy = promised
  /\ x.at \in {"save", "write"} => x.copy = Changed(promised, x.command)
  /\ x.at = "running" => x.copy.own = promised.own

FileInv ==
  /\ file.state = "absent" => promised = DefaultConfig
  /\ file.state = "empty" => \E p \in Processes : process[p].at \in {"fill", "write"}
  /\ file.state = "whole" => ApplyDefaults(file.fields) = promised

SettingsInv ==
  /\ SettingsTyped
  /\ ~mixed /\ ~cut =>
       /\ \A p, q \in Processes : UnderWay(p) /\ UnderWay(q) => p = q
       /\ FileInv
       /\ \A p \in Processes : ProcessInv(process[p])

LEMMA EntriesShape ==
  \A f : f \in Entries <=> DOMAIN f \subseteq ConfigGPUs /\ f \in [DOMAIN f -> Entry]
BY DEF Entries

LEMMA ConfigShape ==
  /\ Config = [own : 0..2, pref : 0..2, gpus : Entries]
  /\ NoEntries \in Entries
  /\ Blank \in Config /\ DefaultConfig \in Config /\ IsSet(DefaultConfig)
<1>1. Config = [own : 0..2, pref : 0..2, gpus : Entries]
  BY DEF Config, Fields, Entries
<1>2. NoEntries \in Entries
  BY EntriesShape DEF NoEntries
<1> QED  BY <1>1, <1>2 DEF Blank, DefaultConfig, IsSet

\* A configuration that has every field is not changed by the defaults, and
\* one that lacks some has every field with them.
LEMMA DefaultsShape ==
  ASSUME NEW c \in Config
  PROVE  /\ ApplyDefaults(c) \in Config /\ IsSet(ApplyDefaults(c))
         /\ IsSet(c) => ApplyDefaults(c) = c
         /\ ApplyDefaults(c) = [own |-> IF c.own = 0 THEN 1 ELSE c.own,
                                pref |-> IF c.pref = 0 THEN 1 ELSE c.pref,
                                gpus |-> c.gpus]
<1>2. c.own \in 0..2 /\ c.pref \in 0..2 /\ c.gpus \in Entries
      /\ c = [own |-> c.own, pref |-> c.pref, gpus |-> c.gpus]
  BY ConfigShape
<1>1. ApplyDefaults(c) = [own |-> IF c.own = 0 THEN 1 ELSE c.own,
                          pref |-> IF c.pref = 0 THEN 1 ELSE c.pref,
                          gpus |-> c.gpus]
  <2> DEFINE o == IF c.own = 0 THEN 1 ELSE c.own
             f == IF c.pref = 0 THEN 1 ELSE c.pref
  <2>1. ApplyDefaults(c) = [c EXCEPT !.own = o, !.pref = f]
    BY DEF ApplyDefaults
  <2> HIDE DEF o, f
  <2>2. ApplyDefaults(c) = [own |-> o, pref |-> f, gpus |-> c.gpus]
    BY <1>2, <2>1
  <2> QED  BY <2>2 DEF o, f
<1>3. ApplyDefaults(c) \in Config
  BY <1>1, <1>2, ConfigShape
<1> QED  BY <1>1, <1>2, <1>3 DEF IsSet

LEMMA UpdateShape ==
  ASSUME NEW c \in Config, NEW cmd \in Commands, cmd.name = "update"
  PROVE  /\ cmd.pref \in {0, 2}
         /\ Changed(c, cmd) = [own |-> c.own, pref |-> cmd.pref, gpus |-> c.gpus]
         /\ Changed(c, cmd) \in Config
<1>1. cmd.pref \in {0, 2}
  BY DEF Commands
<1>2. Changed(c, cmd) = [own |-> c.own, pref |-> cmd.pref, gpus |-> c.gpus]
  BY ConfigShape DEF Changed
<1> QED  BY <1>1, <1>2, ConfigShape

\* The entry a GPU has, or the one it is given.
Held(c, h) == IF h \in DOMAIN c.gpus THEN c.gpus[h] ELSE [available |-> FALSE, rate |-> 0]

NewEntry(c, cmd) ==
  [available |-> IF cmd.available = "" THEN Held(c, cmd.gpu).available
                 ELSE cmd.available = "true",
   rate |-> IF cmd.rate = 9 THEN Held(c, cmd.gpu).rate ELSE cmd.rate]

LEMMA GpuShape ==
  ASSUME NEW c \in Config, NEW cmd \in Commands, cmd.name = "gpu"
  PROVE  /\ cmd.gpu \in ConfigGPUs /\ Held(c, cmd.gpu) \in Entry
         /\ Changed(c, cmd) =
              [own |-> c.own, pref |-> c.pref,
               gpus |-> [h \in DOMAIN c.gpus \cup {cmd.gpu} |->
                           IF h = cmd.gpu THEN NewEntry(c, cmd) ELSE c.gpus[h]]]
         /\ Changed(c, cmd) \in Config
<1>1. cmd.gpu \in ConfigGPUs /\ cmd.rate \in {2, 9}
  BY DEF Commands
<1>2. /\ c = [own |-> c.own, pref |-> c.pref, gpus |-> c.gpus]
      /\ c.own \in 0..2 /\ c.pref \in 0..2
      /\ DOMAIN c.gpus \subseteq ConfigGPUs /\ c.gpus \in [DOMAIN c.gpus -> Entry]
  BY ConfigShape, EntriesShape
<1>3. Held(c, cmd.gpu) \in Entry
  BY <1>2 DEF Held, Entry
<1>4. NewEntry(c, cmd) \in Entry
  <2>1. Held(c, cmd.gpu).available \in BOOLEAN /\ Held(c, cmd.gpu).rate \in {0, 2}
    BY <1>3 DEF Entry
  <2> QED  BY <1>1, <2>1 DEF NewEntry, Entry
<1> DEFINE D == DOMAIN c.gpus \cup {cmd.gpu}
           gs == [h \in D |-> IF h = cmd.gpu THEN NewEntry(c, cmd) ELSE c.gpus[h]]
<1>5. SetGpuRentalConfig(c, cmd) = [c EXCEPT !.gpus = gs]
  BY DEF SetGpuRentalConfig, NewEntry, Held
<1>6. Changed(c, cmd) = [own |-> c.own, pref |-> c.pref, gpus |-> gs]
  BY <1>2, <1>5 DEF Changed
<1>7. gs \in Entries
  <2>1. gs \in [D -> Entry] /\ DOMAIN gs = D /\ D \subseteq ConfigGPUs
    BY <1>1, <1>2, <1>4
  <2> HIDE DEF gs, D
  <2> QED  BY <2>1, EntriesShape
<1>8. Changed(c, cmd) \in Config
  <2> HIDE DEF gs
  <2> QED  BY <1>2, <1>6, <1>7, ConfigShape
<1> QED  BY <1>1, <1>3, <1>6, <1>8

LEMMA ChangedTyped ==
  ASSUME NEW c \in Config, NEW cmd \in Commands, cmd.name \in {"update", "gpu"}
  PROVE  Changed(c, cmd) \in Config
BY UpdateShape, GpuShape

\* A command that has written its change has written what it promised.
LEMMA PromiseKept ==
  ASSUME SettingsTyped, NEW cmd \in Commands, cmd.name \in {"update", "gpu"}
  PROVE  /\ ApplyDefaults(Changed(promised, cmd)) = Promise(cmd)
         /\ Promise(cmd).own = promised.own
         /\ Promise(cmd) \in Config /\ IsSet(Promise(cmd))
<1>0. /\ promised \in Config /\ IsSet(promised)
      /\ promised = [own |-> promised.own, pref |-> promised.pref, gpus |-> promised.gpus]
      /\ promised.own \in 0..2 /\ promised.pref \in 0..2
      /\ DOMAIN promised.gpus \subseteq ConfigGPUs
      /\ promised.gpus \in [DOMAIN promised.gpus -> Entry]
  BY ConfigShape, EntriesShape DEF SettingsTyped
<1>1. Changed(promised, cmd) \in Config
  BY <1>0, ChangedTyped
<1>2. ApplyDefaults(Changed(promised, cmd)) = Promise(cmd)
  <2>1. CASE cmd.name = "update"
    <3>1. /\ cmd.pref \in {0, 2}
          /\ Changed(promised, cmd) =
               [own |-> promised.own, pref |-> cmd.pref, gpus |-> promised.gpus]
      BY <1>0, <2>1, UpdateShape
    <3>2. ApplyDefaults(Changed(promised, cmd)) =
            [own |-> promised.own, pref |-> IF cmd.pref = 0 THEN 1 ELSE cmd.pref,
             gpus |-> promised.gpus]
      BY <1>0, <1>1, <3>1, DefaultsShape DEF IsSet
    <3>3. Promise(cmd) = [promised EXCEPT !.pref = IF cmd.pref = 0 THEN 1 ELSE cmd.pref]
      BY <2>1 DEF Promise
    <3> QED  BY <1>0, <3>2, <3>3
  <2>2. CASE cmd.name = "gpu"
    <3> DEFINE D == DOMAIN promised.gpus \cup {cmd.gpu}
               gs == [h \in D |-> IF h = cmd.gpu THEN NewEntry(promised, cmd)
                                                 ELSE promised.gpus[h]]
               was == [h \in ConfigGPUs |-> Held(promised, h)]
               ps == [h \in D |->
                       [available |-> IF h = cmd.gpu /\ cmd.available # ""
                                        THEN cmd.available = "true" ELSE was[h].available,
                        rate |-> IF h = cmd.gpu /\ cmd.rate # 9 THEN cmd.rate
                                                                ELSE was[h].rate]]
    <3>1. /\ cmd.gpu \in ConfigGPUs
          /\ Changed(promised, cmd) =
               [own |-> promised.own, pref |-> promised.pref, gpus |-> gs]
      BY <1>0, <2>2, GpuShape
    <3>2. IsSet(Changed(promised, cmd))
      <4> HIDE DEF gs
      <4> QED  BY <1>0, <3>1 DEF IsSet
    <3>3. ApplyDefaults(Changed(promised, cmd)) = Changed(promised, cmd)
      BY <1>1, <3>2, DefaultsShape
    <3>4. Promise(cmd) = [promised EXCEPT !.gpus = ps]
      BY <2>2 DEF Promise, Held
    <3>5. ASSUME NEW h \in D PROVE gs[h] = ps[h]
      <4>1. h \in ConfigGPUs /\ was[h] = Held(promised, h)
        BY <1>0, <3>1
      <4>2. CASE h = cmd.gpu
        BY <4>1, <4>2 DEF NewEntry
      <4>3. CASE h # cmd.gpu
        <5>1. /\ was[h] = promised.gpus[h] /\ promised.gpus[h] \in Entry
              /\ gs[h] = promised.gpus[h]
          BY <1>0, <4>1, <4>3 DEF Held
        <5>2. ps[h] = [available |-> was[h].available, rate |-> was[h].rate]
          <6> HIDE DEF was
          <6> QED  BY <4>3
        <5> HIDE DEF ps, gs, was
        <5> QED  BY <5>1, <5>2 DEF Entry
      <4> QED  BY <4>2, <4>3
    <3>6. gs = ps
      BY <3>5
    <3> HIDE DEF gs, ps
    <3> QED  BY <1>0, <3>1, <3>3, <3>4, <3>6
  <2> QED  BY <2>1, <2>2
<1>3. ApplyDefaults(Changed(promised, cmd)).own = promised.own
  <2>1. Changed(promised, cmd).own = promised.own
    <3>1. CASE cmd.name = "update"
      BY <1>0, <3>1, UpdateShape
    <3>2. CASE cmd.name = "gpu"
      <4> DEFINE gs == [h \in DOMAIN promised.gpus \cup {cmd.gpu} |->
                          IF h = cmd.gpu THEN NewEntry(promised, cmd) ELSE promised.gpus[h]]
      <4>1. Changed(promised, cmd) =
              [own |-> promised.own, pref |-> promised.pref, gpus |-> gs]
        BY <1>0, <3>2, GpuShape
      <4> HIDE DEF gs
      <4> QED  BY <4>1
    <3> QED  BY <3>1, <3>2
  <2> QED  BY <1>0, <1>1, <2>1, DefaultsShape DEF IsSet
<1> QED  BY <1>1, <1>2, <1>3, DefaultsShape

ProcessStates ==
  [at : {"new", "load", "create", "fill", "run", "save", "write", "running", "exited"},
   command : Commands, copy : Config]

LEMMA TwoFields ==
  ASSUME NEW f \in [Processes -> ProcessStates], NEW p \in Processes,
         NEW at \in {"run", "save"}, NEW copy \in Config
  PROVE  [f EXCEPT ![p].at = at, ![p].copy = copy] =
           [f EXCEPT ![p] = [at |-> at, command |-> f[p].command, copy |-> copy]]
<1> DEFINE g == [f EXCEPT ![p].at = at]
           h == [f EXCEPT ![p] = [at |-> at, command |-> f[p].command, copy |-> copy]]
<1>1. /\ f[p] \in ProcessStates
      /\ f[p] = [at |-> f[p].at, command |-> f[p].command, copy |-> f[p].copy]
  BY DEF ProcessStates
<1>2. /\ g[p] = [at |-> at, command |-> f[p].command, copy |-> f[p].copy]
      /\ g \in [Processes -> ProcessStates]
      /\ \A q \in Processes \ {p} : g[q] = f[q]
  BY <1>1 DEF ProcessStates
<1> HIDE DEF g
<1>3. /\ [g EXCEPT ![p].copy = copy][p] =
           [at |-> at, command |-> f[p].command, copy |-> copy]
      /\ \A q \in Processes \ {p} : [g EXCEPT ![p].copy = copy][q] = f[q]
  BY <1>2 DEF ProcessStates
<1>4. /\ h \in [Processes -> ProcessStates]
      /\ h[p] = [at |-> at, command |-> f[p].command, copy |-> copy]
      /\ \A q \in Processes \ {p} : h[q] = f[q]
  BY <1>1 DEF ProcessStates
<1>5. [g EXCEPT ![p].copy = copy] \in [Processes -> ProcessStates]
  BY <1>2 DEF ProcessStates
<1> HIDE DEF h
<1>6. [g EXCEPT ![p].copy = copy] = h
  BY <1>3, <1>4, <1>5
<1> QED  BY <1>6 DEF g, h

LEMMA SettingsStart ==
  ASSUME SettingsInit
  PROVE  SettingsInv
<1>1. PICK there \in BOOLEAN :
        /\ file = [state |-> IF there THEN "whole" ELSE "absent",
                   fields |-> IF there THEN [Blank EXCEPT !.own = 2] ELSE Blank]
        /\ promised = IF there THEN [DefaultConfig EXCEPT !.own = 2] ELSE DefaultConfig
  BY DEF SettingsInit
<1> DEFINE some == [own |-> 2, pref |-> 0, gpus |-> NoEntries]
           full == [own |-> 2, pref |-> 1, gpus |-> NoEntries]
<1>2. /\ [Blank EXCEPT !.own = 2] = some /\ [DefaultConfig EXCEPT !.own = 2] = full
      /\ some \in Config /\ full \in Config /\ IsSet(full)
  BY ConfigShape DEF Blank, DefaultConfig, IsSet
<1>3. ApplyDefaults(some) = full
  BY <1>2, DefaultsShape
<1>4. /\ Starting \in ProcessStates /\ Starting.at = "new"
      /\ process = [p \in Processes |-> Starting]
  BY ConfigShape DEF SettingsInit, Starting, ProcessStates, Commands
<1> HIDE DEF some, full
<1>5. SettingsTyped
  BY <1>1, <1>2, <1>4, ConfigShape DEF SettingsTyped, ProcessStates
<1>6. FileInv
  BY <1>1, <1>2, <1>3 DEF FileInv
<1>7. \A p \in Processes : ~UnderWay(p) /\ ProcessInv(process[p])
  BY <1>4 DEF UnderWay, ProcessInv
<1> QED  BY <1>5, <1>6, <1>7 DEF SettingsInv

\* One process goes on to the state `next', and what is promised stays.
LEMMA ProcessStep ==
  ASSUME SettingsInv, NEW p \in Processes, NEW next \in ProcessStates,
         process' = [process EXCEPT ![p] = next], UNCHANGED promised,
         file' \in [state : {"absent", "empty", "whole"}, fields : Config],
         mixed => mixed', cut => cut',
         next.at \in {"save", "write"} => next.command.name \in {"update", "gpu"},
         ~mixed' /\ ~cut' =>
           /\ FileInv' /\ ProcessInv(next)
           /\ \/ UnderWay(p)
              \/ next.at \in {"new", "exited", "running"}
              \/ \A q \in Processes : ~UnderWay(q)
  PROVE  SettingsInv'
<1>1. /\ process' \in [Processes -> ProcessStates] /\ process'[p] = next
      /\ \A q \in Processes \ {p} : process'[q] = process[q]
  BY DEF SettingsInv, SettingsTyped, ProcessStates
<1>2. SettingsTyped'
  BY <1>1 DEF SettingsInv, SettingsTyped, ProcessStates
<1>3. ASSUME ~mixed', ~cut'
      PROVE  /\ \A q, s \in Processes : UnderWay(q)' /\ UnderWay(s)' => q = s
             /\ \A q \in Processes : ProcessInv(process[q])'
  <2>1. ~mixed /\ ~cut
    BY <1>3
  <2>2. \A q \in Processes \ {p} : UnderWay(q)' <=> UnderWay(q)
    BY <1>1 DEF UnderWay
  <2>3. UnderWay(p)' => UnderWay(p) \/ \A q \in Processes : ~UnderWay(q)
    BY <1>1, <1>3 DEF UnderWay
  <2>4. \A q, s \in Processes : UnderWay(q)' /\ UnderWay(s)' => q = s
    BY <2>1, <2>2, <2>3 DEF SettingsInv
  <2>5. ASSUME NEW q \in Processes PROVE ProcessInv(process[q])'
    <3>1. CASE q = p
      BY <1>1, <1>3, <3>1 DEF ProcessInv
    <3>2. CASE q # p
      BY <1>1, <2>1, <3>2 DEF SettingsInv, ProcessInv
    <3> QED  BY <3>1, <3>2
  <2> QED  BY <2>4, <2>5
<1> QED  BY <1>2, <1>3 DEF SettingsInv

LEMMA SettingsKeeps ==
  ASSUME SettingsInv, SettingsNext \/ UNCHANGED settingsVars
  PROVE  SettingsInv'
<1> CASE UNCHANGED settingsVars
  BY DEF settingsVars, SettingsInv, SettingsTyped, FileInv, ProcessInv, UnderWay, IsSet,
         Processes, Changed
<1> CASE SettingsNext
  <2> PICK p \in Processes :
        \/ Invoke(p) \/ LoadConfig(p) \/ RunCommand(p) \/ Truncate(p)
        \/ WriteDefault(p) \/ SaveConfig(p) \/ Fails(p) \/ DaemonStops(p)
    BY DEF SettingsNext
  <2> DEFINE x == process[p]
  <2>0. /\ x \in ProcessStates
        /\ x = [at |-> x.at, command |-> x.command, copy |-> x.copy]
        /\ x.command \in Commands /\ x.copy \in Config
        /\ process \in [Processes -> ProcessStates]
        /\ file \in [state : {"absent", "empty", "whole"}, fields : Config]
        /\ promised \in Config /\ IsSet(promised)
        /\ x.at \in {"save", "write"} => x.command.name \in {"update", "gpu"}
        /\ ~mixed /\ ~cut =>
             /\ FileInv /\ ProcessInv(x)
             /\ \A q, s \in Processes : UnderWay(q) /\ UnderWay(s) => q = s
    BY DEF SettingsInv, SettingsTyped, ProcessStates
  <2>a. ASSUME NEW at \in {"load", "create", "fill", "run", "save", "write", "running"},
               process' = [process EXCEPT ![p].at = at]
        PROVE  /\ [x EXCEPT !.at = at] \in ProcessStates
               /\ [x EXCEPT !.at = at] = [at |-> at, command |-> x.command, copy |-> x.copy]
               /\ process' = [process EXCEPT ![p] = [x EXCEPT !.at = at]]
    BY <2>0, <2>a DEF ProcessStates
  <2>b. /\ [Starting EXCEPT !.at = "exited"] \in ProcessStates
        /\ [Starting EXCEPT !.at = "exited"].at = "exited"
    BY ConfigShape DEF Starting, ProcessStates, Commands
  <2> HIDE DEF x
  <2>c. ASSUME Exits(p), UNCHANGED <<file, promised>>, mixed => mixed', cut => cut',
               ~cut' => x.at \notin {"fill", "write"}
        PROVE  SettingsInv'
    <3> DEFINE next == [Starting EXCEPT !.at = "exited"]
    <3>1. process' = [process EXCEPT ![p] = next]
      BY <2>c DEF Exits
    <3>2. next \in ProcessStates /\ next.at = "exited"
      BY <2>b
    <3> HIDE DEF next
    <3>3. ProcessInv(next)
      BY <3>2 DEF ProcessInv
    <3>4. ASSUME ~mixed', ~cut' PROVE FileInv'
      <4>1. FileInv
        BY <2>0, <2>c, <3>4
      <4>2. \A q \in Processes : process[q].at \in {"fill", "write"} => process'[q] = process[q]
        BY <2>0, <2>c, <3>1, <3>4 DEF x
      <4> QED  BY <2>c, <4>1, <4>2 DEF FileInv
    <3> QED  BY <2>0, <2>c, <3>1, <3>2, <3>3, <3>4, ProcessStep
  <2>1. CASE Invoke(p)
    <3>1. PICK c \in Commands :
            process' = [process EXCEPT ![p] = [@ EXCEPT !.at = "load", !.command = c]]
      BY <2>1 DEF Invoke
    <3> DEFINE next == [x EXCEPT !.at = "load", !.command = c]
    <3>2. /\ next \in ProcessStates /\ next.at = "load"
          /\ process' = [process EXCEPT ![p] = next]
      BY <2>0, <3>1 DEF ProcessStates, x
    <3> HIDE DEF next
    <3>3. /\ x.at = "new" /\ UNCHANGED <<file, promised, cut>>
          /\ mixed' <=> (mixed \/ \E q \in Processes : UnderWay(q))
      BY <2>1 DEF Invoke, Is, x
    <3>4. ProcessInv(next)
      BY <3>2 DEF ProcessInv
    <3>5. ASSUME ~mixed', ~cut' PROVE FileInv'
      BY <2>0, <3>2, <3>3, <3>5 DEF FileInv, x
    <3> QED  BY <2>0, <3>2, <3>3, <3>4, <3>5, ProcessStep
  <2>2. CASE LoadConfig(p)
    <3>1. /\ x.at = "load" /\ UNCHANGED <<file, promised, mixed, cut>> /\ UnderWay(p)
      BY <2>2 DEF LoadConfig, Is, UnderWay, x
    <3>2. ASSUME ~mixed, ~cut PROVE file.state # "empty"
      <4>1. \A q \in Processes : process[q].at \notin {"fill", "write"}
        BY <2>0, <3>1, <3>2 DEF UnderWay, x
      <4> QED  BY <2>0, <3>2, <4>1 DEF FileInv
    <3>3. CASE file.state = "absent"
      <4> DEFINE next == [at |-> "create", command |-> x.command, copy |-> DefaultConfig]
      <4>1. /\ process' = [process EXCEPT ![p] = next] /\ next \in ProcessStates
            /\ next.at = "create" /\ next.copy = DefaultConfig
        BY <2>0, <2>2, <3>3, ConfigShape DEF LoadConfig, ProcessStates, x
      <4> HIDE DEF next
      <4>2. ASSUME ~mixed', ~cut' PROVE FileInv' /\ ProcessInv(next)
        BY <2>0, <3>1, <3>3, <4>1, <4>2 DEF FileInv, ProcessInv
      <4> QED  BY <2>0, <3>1, <4>1, <4>2, ProcessStep
    <3>4. CASE file.state # "absent"
      <4> DEFINE read == ApplyDefaults(IF file.state = "empty" THEN Blank ELSE file.fields)
                 next == [at |-> "run", command |-> x.command, copy |-> read]
      <4>1. read \in Config
        BY <2>0, ConfigShape, DefaultsShape
      <4>2. /\ process' = [process EXCEPT ![p] = next] /\ next \in ProcessStates
            /\ next.at = "run" /\ next.copy = read
        <5>1. process' = [process EXCEPT ![p].at = "run", ![p].copy = read]
          BY <2>2, <3>4 DEF LoadConfig
        <5> HIDE DEF read
        <5>2. next \in ProcessStates
          BY <2>0, <4>1 DEF ProcessStates
        <5>3. process' = [process EXCEPT ![p] = [at |-> "run", command |-> process[p].command,
                                                 copy |-> read]]
          BY <2>0, <4>1, <5>1, TwoFields
        <5> QED  BY <5>2, <5>3 DEF x
      <4>3. ASSUME ~mixed', ~cut' PROVE read = promised /\ FileInv'
        <5>1. file.state = "whole" /\ FileInv
          BY <2>0, <3>1, <3>2, <3>4, <4>3
        <5> QED  BY <3>1, <5>1 DEF FileInv
      <4> HIDE DEF next, read
      <4>4. ASSUME ~mixed', ~cut' PROVE ProcessInv(next)
        BY <4>2, <4>3, <4>4 DEF ProcessInv
      <4> QED  BY <2>0, <3>1, <4>2, <4>3, <4>4, ProcessStep
    <3> QED  BY <3>3, <3>4
  <2>3. CASE RunCommand(p)
    <3> DEFINE cmd == x.command
    <3>1. x.at = "run" /\ UNCHANGED <<file, promised, mixed, cut>> /\ UnderWay(p)
      BY <2>3 DEF RunCommand, Is, UnderWay, x
    <3>2. ASSUME ~mixed', ~cut', NEW next, process' = [process EXCEPT ![p] = next]
          PROVE  FileInv'
      BY <2>0, <3>1, <3>2 DEF FileInv, x
    <3>3. CASE Becomes(p, "running")
      <4> DEFINE next == [x EXCEPT !.at = "running"]
      <4>1. /\ process' = [process EXCEPT ![p] = next] /\ next \in ProcessStates
            /\ next.at = "running" /\ next.copy = x.copy
        BY <2>0, <2>a, <3>3 DEF Becomes
      <4> HIDE DEF next
      <4>2. ASSUME ~mixed', ~cut' PROVE FileInv' /\ ProcessInv(next)
        BY <2>0, <3>1, <3>2, <4>1, <4>2 DEF ProcessInv
      <4> QED  BY <2>0, <3>1, <4>1, <4>2, ProcessStep
    <3>4. CASE Exits(p)
      BY <2>c, <3>1, <3>4
    <3>5. CASE /\ cmd.name = "update" \/ (cmd.name = "gpu" /\ (cmd.available # "" \/ cmd.rate # 9))
               /\ process' = [process EXCEPT ![p].at = "save", ![p].copy = Changed(@, cmd)]
      <4> DEFINE new == Changed(x.copy, cmd)
                 next == [at |-> "save", command |-> cmd, copy |-> new]
      <4>1. new \in Config /\ cmd.name \in {"update", "gpu"}
        BY <2>0, <3>5, ChangedTyped
      <4>2. process' = [process EXCEPT ![p].at = "save", ![p].copy = new]
        BY <2>0, <3>5 DEF x
      <4> HIDE DEF new
      <4>3. /\ process' = [process EXCEPT ![p] = next] /\ next \in ProcessStates
            /\ next.at = "save" /\ next.copy = new /\ next.command = cmd
        <5>1. next \in ProcessStates
          BY <2>0, <4>1 DEF ProcessStates
        <5>2. process' = [process EXCEPT ![p] = [at |-> "save", command |-> process[p].command,
                                                 copy |-> new]]
          BY <2>0, <4>1, <4>2, TwoFields
        <5> QED  BY <5>1, <5>2 DEF x
      <4> HIDE DEF next
      <4>4. ASSUME ~mixed', ~cut' PROVE FileInv' /\ ProcessInv(next)
        BY <2>0, <3>1, <3>2, <4>1, <4>3, <4>4 DEF ProcessInv, new
      <4> QED  BY <2>0, <3>1, <4>1, <4>3, <4>4, ProcessStep
    <3> QED  BY <2>3, <3>3, <3>4, <3>5 DEF RunCommand, x
  <2>4. CASE Truncate(p)
    <3>1. PICK at \in {"fill", "write"} :
            /\ Becomes(p, at) /\ (at = "fill" => x.at = "create")
            /\ (at = "write" => x.at = "save")
      BY <2>4 DEF Truncate, Is, x
    <3> DEFINE next == [x EXCEPT !.at = at]
    <3>2. /\ process' = [process EXCEPT ![p] = next] /\ next \in ProcessStates
          /\ next = [at |-> at, command |-> x.command, copy |-> x.copy]
          /\ next.at \in {"save", "write"} => next.command.name \in {"update", "gpu"}
      BY <2>0, <2>a, <3>1 DEF Becomes
    <3> HIDE DEF next
    <3>3. /\ file' = [state |-> "empty", fields |-> Blank]
          /\ UNCHANGED <<promised, mixed, cut>> /\ UnderWay(p)
      BY <2>4, <3>1 DEF Truncate, UnderWay, x
    <3>4. /\ file'.state = "empty" /\ process'[p].at \in {"fill", "write"}
          /\ file' \in [state : {"absent", "empty", "whole"}, fields : Config]
      BY <2>0, <3>2, <3>3, ConfigShape
    <3>5. ASSUME ~mixed', ~cut' PROVE FileInv' /\ ProcessInv(next)
      <4>1. FileInv'
        BY <3>4 DEF FileInv
      <4>2. ProcessInv(next)
        BY <2>0, <3>1, <3>2, <3>3, <3>5 DEF ProcessInv
      <4> QED  BY <4>1, <4>2
    <3> QED  BY <2>0, <3>2, <3>3, <3>4, <3>5, ProcessStep
  <2>5. CASE WriteDefault(p)
    <3> DEFINE next == [x EXCEPT !.at = "run"]
    <3>1. /\ process' = [process EXCEPT ![p] = next] /\ next \in ProcessStates
          /\ next = [at |-> "run", command |-> x.command, copy |-> x.copy]
      BY <2>0, <2>5, <2>a DEF Becomes, WriteDefault
    <3> HIDE DEF next
    <3>2. /\ file' = [state |-> "whole", fields |-> x.copy] /\ x.at = "fill"
          /\ UNCHANGED <<promised, mixed, cut>> /\ UnderWay(p)
      BY <2>5 DEF WriteDefault, Is, UnderWay, x
    <3>3. ASSUME ~mixed', ~cut' PROVE FileInv' /\ ProcessInv(next)
      <4>1. x.copy = DefaultConfig /\ promised = DefaultConfig
        BY <2>0, <3>2, <3>3 DEF ProcessInv
      <4>2. ApplyDefaults(DefaultConfig) = DefaultConfig
        BY ConfigShape, DefaultsShape
      <4> QED  BY <3>1, <3>2, <4>1, <4>2 DEF FileInv, ProcessInv
    <3> QED  BY <2>0, <3>1, <3>2, <3>3, ProcessStep
  <2>6. CASE SaveConfig(p)
    <3> DEFINE next == [Starting EXCEPT !.at = "exited"]
    <3>1. /\ process' = [process EXCEPT ![p] = next]
          /\ next \in ProcessStates /\ next.at = "exited"
      BY <2>6, <2>b DEF SaveConfig, Exits
    <3> HIDE DEF next
    <3>2. /\ x.at = "write" /\ UNCHANGED <<mixed, cut>> /\ UnderWay(p)
          /\ file' = [state |-> "whole", fields |-> x.copy]
          /\ promised' = Promise(x.command)
      BY <2>6 DEF SaveConfig, Is, UnderWay, x
    <3>3. /\ process' \in [Processes -> ProcessStates] /\ process'[p].at = "exited"
          /\ \A q \in Processes \ {p} : process'[q] = process[q]
      BY <2>0, <3>1
    <3>4. x.command.name \in {"update", "gpu"}
      BY <2>0, <3>2
    <3>5. SettingsInv'
      <4>1. /\ ApplyDefaults(Changed(promised, x.command)) = promised'
            /\ promised'.own = promised.own
            /\ promised' \in Config /\ IsSet(promised')
        BY <2>0, <3>2, <3>4, PromiseKept DEF SettingsInv
      <4>2. SettingsTyped'
        BY <2>0, <3>2, <3>3, <4>1 DEF SettingsInv, SettingsTyped, ProcessStates
      <4>3. ASSUME ~mixed', ~cut'
            PROVE  /\ \A q, s \in Processes : UnderWay(q)' /\ UnderWay(s)' => q = s
                   /\ FileInv'
                   /\ \A q \in Processes : ProcessInv(process[q])'
        <5>1. x.copy = Changed(promised, x.command)
          BY <2>0, <3>2, <4>3 DEF ProcessInv
        <5>2. FileInv'
          BY <3>2, <4>1, <5>1 DEF FileInv
        <5>3. \A q \in Processes : process'[q].at \in {"new", "exited", "running"}
          BY <2>0, <3>2, <3>3, <4>3 DEF UnderWay
        <5>4. ASSUME NEW q \in Processes PROVE ProcessInv(process[q])'
          <6>1. CASE q = p
            BY <3>3, <6>1 DEF ProcessInv
          <6>2. CASE q # p
            <7>1. ProcessInv(process[q]) /\ process'[q] = process[q]
              BY <3>2, <3>3, <4>3, <6>2 DEF SettingsInv
            <7> QED  BY <4>1, <5>3, <7>1 DEF ProcessInv
          <6> QED  BY <6>1, <6>2
        <5> QED  BY <5>2, <5>3, <5>4 DEF UnderWay
      <4> QED  BY <4>2, <4>3 DEF SettingsInv
    <3> QED  BY <3>5
  <2>7. CASE Fails(p)
    BY <2>7, <2>c DEF Fails, x
  <2>8. CASE DaemonStops(p)
    BY <2>8, <2>c DEF DaemonStops, Is, x
  <2> QED  BY <2>1, <2>2, <2>3, <2>4, <2>5, <2>6, <2>7, <2>8
<1> QED  OBVIOUS

LEMMA SettingsHold ==
  ASSUME SettingsInv
  PROVE  SettingsSound
BY DEF SettingsInv, FileInv, ProcessInv, SettingsSound, SavedIsKept, StartsAsConfigured, Is

----------------------------------------------------------------------------
(* The Redis session store and its rate limiter.                           *)

StoreCalls ==
  [pc : {"free", "exists", "ttl", "set", "sadd", "expire", "del", "srem", "dels",
         "delset", "limit"},
   s : Sessions \cup {NoSession}, until : Nat, left : Nat, ids : SUBSET Sessions]

StoreTyped ==
  /\ now \in 0..MaxTime
  /\ sessionKey \in [Sessions -> Nat] /\ expiresAt \in [Sessions -> Nat]
  /\ userSet \subseteq Sessions
  /\ storeCall \in [Callers -> StoreCalls]
  /\ created \subseteq Sessions /\ deleted \subseteq created
  /\ rateCount \in Nat /\ rateLapse \in Nat /\ rateDied \in BOOLEAN

\* An update that has still to SET has a session that was created, and one
\* that is deleted only if it was overtaken.
CallInv(call, made, gone, late) ==
  /\ call.pc \in {"exists", "ttl", "set"} =>
       call.s \in made /\ (call.s \in gone => call.s \in late)
  /\ call.pc \in {"sadd", "del"} => call.s \in Sessions

StoreInv ==
  /\ StoreTyped
  /\ \A s \in Sessions : sessionKey[s] # Absent => s \in created
  /\ \A c \in Callers : CallInv(storeCall[c], created, deleted, overtaken)
  /\ LoggedOutForGood
  /\ LimiterLifts

LEMMA StoreStart ==
  ASSUME SessionStoreInit
  PROVE  StoreInv
<1>1. /\ \A c \in Callers : storeCall[c] = Free /\ Free.pc = "free"
      /\ storeCall \in [Callers -> StoreCalls]
  BY DEF SessionStoreInit, Free, StoreCalls
<1>2. StoreTyped
  <2>1. rateDied \in BOOLEAN
    BY DEF SessionStoreInit
  <2>2. sessionKey \in [Sessions -> Nat] /\ expiresAt \in [Sessions -> Nat]
    BY DEF SessionStoreInit, Absent
  <2> QED  BY <1>1, <2>1, <2>2, RedisAssumption DEF SessionStoreInit, StoreTyped, Absent
<1>3. \A c \in Callers : CallInv(storeCall[c], created, deleted, overtaken)
  BY <1>1 DEF CallInv
<1>4. Absent # Forever
  BY RedisAssumption DEF Absent, Forever
<1> QED
  BY <1>2, <1>3, <1>4 DEF SessionStoreInit, StoreInv, LoggedOutForGood, LimiterLifts

\* The steps of the session store by a caller c that end in the call `call':
\* the rate limiter's part holds on.
LEMMA StoreFrame ==
  ASSUME StoreInv, NEW c \in Callers, NEW call \in StoreCalls,
         storeCall' = [storeCall EXCEPT ![c] = call], storeCall[c].pc # "limit",
         UNCHANGED <<now, limiterVars>>
  PROVE  /\ storeCall' \in [Callers -> StoreCalls]
         /\ storeCall'[c] = call
         /\ \A d \in Callers \ {c} : storeCall'[d] = storeCall[d]
         /\ LimiterLifts'
<1>1. /\ storeCall' \in [Callers -> StoreCalls]
      /\ storeCall'[c] = call
      /\ \A d \in Callers \ {c} : storeCall'[d] = storeCall[d]
  BY DEF StoreInv, StoreTyped
<1>2. LimiterLifts'
  BY <1>1 DEF StoreInv, LimiterLifts, limiterVars, At
<1> QED  BY <1>1, <1>2

\* A step of the store that leaves keys, creations and deletions alone.
LEMMA IndexKeeps ==
  ASSUME StoreInv, NEW c \in Callers, NEW call \in StoreCalls,
         storeCall' = [storeCall EXCEPT ![c] = call], storeCall[c].pc # "limit",
         UNCHANGED <<now, limiterVars, sessionKey, expiresAt, created, deleted, overtaken>>,
         userSet' \subseteq Sessions,
         CallInv(call, created, deleted, overtaken)
  PROVE  StoreInv'
<1>1. /\ storeCall' \in [Callers -> StoreCalls]
      /\ storeCall'[c] = call
      /\ \A d \in Callers \ {c} : storeCall'[d] = storeCall[d]
      /\ LimiterLifts'
  BY StoreFrame
<1>2. StoreTyped'
  BY <1>1 DEF StoreInv, StoreTyped, limiterVars
<1>3. ASSUME NEW d \in Callers
      PROVE  CallInv(storeCall'[d], created', deleted', overtaken')
  BY <1>1 DEF StoreInv
<1>4. LoggedOutForGood'
  BY DEF StoreInv, LoggedOutForGood, Live
<1> QED  BY <1>1, <1>2, <1>3, <1>4 DEF StoreInv

\* A deletion, by a call that goes on to `call'.
LEMMA RemoveKeeps ==
  ASSUME StoreInv, NEW c \in Callers, NEW call \in StoreCalls,
         storeCall' = [storeCall EXCEPT ![c] = call],
         storeCall[c].pc \in {"del", "dels"}, call.pc \in {"srem", "dels"},
         NEW ids \in SUBSET Sessions, Remove(ids),
         UNCHANGED <<now, limiterVars, expiresAt, userSet, created>>
  PROVE  StoreInv'
<1>1. /\ storeCall' \in [Callers -> StoreCalls]
      /\ storeCall'[c] = call
      /\ \A d \in Callers \ {c} : storeCall'[d] = storeCall[d]
      /\ LimiterLifts'
  BY StoreFrame
<1>2. /\ sessionKey' \in [Sessions -> Nat]
      /\ \A s \in Sessions : sessionKey'[s] = IF s \in ids THEN Absent ELSE sessionKey[s]
  BY DEF Remove, StoreInv, StoreTyped, Absent
<1>3. ASSUME NEW s \in ids, Live(sessionKey[s]) PROVE s \in created
  <2>1. sessionKey[s] # Absent
    BY <1>3 DEF Live, Absent, StoreInv, StoreTyped
  <2> QED  BY <2>1 DEF StoreInv
<1>4. StoreTyped'
  BY <1>1, <1>2, <1>3 DEF Remove, StoreInv, StoreTyped, limiterVars
<1>5. ASSUME NEW d \in Callers
      PROVE  CallInv(storeCall'[d], created', deleted', overtaken')
  <2>1. CASE d = c
    BY <1>1, <2>1 DEF CallInv
  <2>2. CASE d # c
    <3>1. CallInv(storeCall[d], created, deleted, overtaken) /\ storeCall'[d] = storeCall[d]
      BY <1>1, <2>2 DEF StoreInv
    <3>2. ASSUME storeCall[d].pc \in {"exists", "ttl", "set"}, storeCall[d].s \in deleted'
          PROVE  storeCall[d].s \in overtaken'
      BY <3>1, <3>2 DEF Remove, CallInv
    <3> QED  BY <3>1, <3>2 DEF CallInv
  <2> QED  BY <2>1, <2>2
<1>6. LoggedOutForGood'
  <2> SUFFICES ASSUME NEW s \in deleted', Live(sessionKey[s])'
               PROVE  s \in overtaken'
    BY DEF LoggedOutForGood
  <2>1. s \in Sessions /\ now \in Nat
    BY <1>4 DEF StoreTyped
  <2>2. s \notin ids
    BY <1>2, <2>1 DEF Live, Absent
  <2>3. s \in deleted /\ Live(sessionKey[s])
    BY <1>2, <2>1, <2>2 DEF Remove, Live
  <2> QED  BY <2>3 DEF StoreInv, LoggedOutForGood, Remove
<1>7. \A s \in Sessions : sessionKey'[s] # Absent => s \in created'
  BY <1>2 DEF StoreInv
<1> QED  BY <1>1, <1>4, <1>5, <1>6, <1>7 DEF StoreInv

LEMMA StoreStepKeeps ==
  ASSUME StoreInv, NEW c \in Callers, StoreStep(c), UNCHANGED <<now, limiterVars>>
  PROVE  StoreInv'
<1> DEFINE call == storeCall[c]
<1>0. /\ call \in StoreCalls /\ Free \in StoreCalls /\ Free.pc = "free"
      /\ now \in Nat /\ CallInv(call, created, deleted, overtaken)
      /\ CallInv(Free, created, deleted, overtaken)
  BY DEF StoreInv, StoreTyped, StoreCalls, Free, CallInv
<1>a. ASSUME NEW pc \in {"exists", "ttl", "set", "sadd", "expire", "srem", "delset"}, Step(c, pc)
      PROVE  /\ storeCall' = [storeCall EXCEPT ![c] = [call EXCEPT !.pc = pc]]
             /\ [call EXCEPT !.pc = pc] \in StoreCalls
             /\ [call EXCEPT !.pc = pc].pc = pc
             /\ [call EXCEPT !.pc = pc].s = call.s
  BY <1>0, <1>a DEF Step, StoreCalls, StoreInv, StoreTyped
<1> HIDE DEF call
<1>1. ASSUME NEW s \in Sessions, Create(c, s) PROVE StoreInv'
  <2>1. PICK d \in Lifetimes : Begin(c, "ttl", s, now + d)
    BY <1>1 DEF Create
  <2> DEFINE new == [pc |-> "ttl", s |-> s, until |-> now + d, left |-> 0, ids |-> {}]
  <2>2. /\ new \in StoreCalls /\ new.pc = "ttl" /\ new.s = s
        /\ storeCall' = [storeCall EXCEPT ![c] = new]
    BY <1>0, <2>1, StoreAssumption DEF Begin, StoreCalls, Durations
  <2> HIDE DEF new
  <2>3. /\ created' = created \cup {s} /\ s \notin created /\ call.pc = "free"
        /\ UNCHANGED <<sessionKey, expiresAt, userSet, deleted, overtaken>>
    BY <1>1 DEF Create, At, call
  <2>4. /\ storeCall' \in [Callers -> StoreCalls]
        /\ storeCall'[c] = new
        /\ \A q \in Callers \ {c} : storeCall'[q] = storeCall[q]
        /\ LimiterLifts'
    BY <2>2, <2>3, StoreFrame DEF call
  <2>5. StoreTyped'
    BY <2>3, <2>4 DEF StoreInv, StoreTyped, limiterVars
  <2>6. ASSUME NEW q \in Callers
        PROVE  CallInv(storeCall'[q], created', deleted', overtaken')
    <3>1. CASE q = c
      BY <2>2, <2>3, <2>4, <3>1 DEF CallInv, StoreInv, StoreTyped
    <3>2. CASE q # c
      BY <2>3, <2>4, <3>2 DEF CallInv, StoreInv
    <3> QED  BY <3>1, <3>2
  <2>7. LoggedOutForGood' /\ (\A t \in Sessions : sessionKey'[t] # Absent => t \in created')
    BY <2>3 DEF StoreInv, LoggedOutForGood, Live
  <2> QED  BY <2>4, <2>5, <2>6, <2>7 DEF StoreInv
<1>2. ASSUME NEW s \in Sessions, Refresh(c, s) PROVE StoreInv'
  <2>0. now \in Nat /\ expiresAt[s] \in Nat /\ \A d \in Lifetimes : now + d \in Nat
    <3>1. expiresAt \in [Sessions -> Nat]
      BY Zenon DEF StoreInv, StoreTyped
    <3>2. \A d \in Lifetimes : d \in Nat
      BY StoreAssumption DEF Durations
    <3> QED  BY <1>0, <3>1, <3>2
  <2>1. PICK t \in Nat : Begin(c, "exists", s, t)
    BY <2>0, <1>2, Zenon DEF Refresh
  <2> DEFINE new == [pc |-> "exists", s |-> s, until |-> t, left |-> 0, ids |-> {}]
  <2>2. /\ new \in StoreCalls /\ new.pc = "exists" /\ new.s = s
        /\ storeCall' = [storeCall EXCEPT ![c] = new]
    BY <2>1 DEF Begin, StoreCalls
  <2> HIDE DEF new
  <2>3. /\ storeCall[c].pc = "free" /\ Live(sessionKey[s])
        /\ UNCHANGED <<sessionKey, expiresAt, userSet, created, deleted, overtaken>>
    BY <1>2 DEF Refresh, At
  <2>4. sessionKey[s] # Absent
    BY <2>3 DEF Live, Absent, StoreInv, StoreTyped
  <2>5. CallInv(new, created, deleted, overtaken)
    BY <2>2, <2>3, <2>4 DEF CallInv, StoreInv, LoggedOutForGood
  <2>6. userSet' \subseteq Sessions
    BY <2>3 DEF StoreInv, StoreTyped
  <2> QED  BY <2>2, <2>3, <2>5, <2>6, IndexKeeps
<1>3. ASSUME NEW s \in Sessions, Delete(c, s) PROVE StoreInv'
  <2> DEFINE new == [pc |-> "del", s |-> s, until |-> 0, left |-> 0, ids |-> {}]
  <2>1. /\ new \in StoreCalls /\ new.pc = "del" /\ new.s = s
        /\ storeCall' = [storeCall EXCEPT ![c] = new]
    BY <1>3 DEF Delete, Begin, StoreCalls
  <2> HIDE DEF new
  <2>2. /\ storeCall[c].pc = "free" /\ userSet' \subseteq Sessions
        /\ UNCHANGED <<sessionKey, expiresAt, created, deleted, overtaken>>
    BY <1>3 DEF Delete, At, StoreInv, StoreTyped
  <2>3. CallInv(new, created, deleted, overtaken)
    BY <2>1 DEF CallInv
  <2> QED  BY <2>1, <2>2, <2>3, IndexKeeps
<1>4. CASE CreateSet(c)
  <2>1. /\ storeCall[c].pc = "set" /\ call.s \in created /\ call.s \in Sessions
        /\ call.s \in deleted => call.s \in overtaken
        /\ userSet' \subseteq Sessions
        /\ UNCHANGED <<userSet, created, deleted, overtaken>>
    BY <1>0, <1>4 DEF CreateSet, At, CallInv, StoreInv, StoreTyped, call
  <2>2. /\ sessionKey' = [sessionKey EXCEPT ![call.s] = now + call.left]
        /\ expiresAt' = [expiresAt EXCEPT ![call.s] = call.until]
        /\ storeCall' = [storeCall EXCEPT ![c] = [call EXCEPT !.pc = "sadd", !.until = 0]]
    BY <1>4 DEF CreateSet, call
  <2> DEFINE on == [call EXCEPT !.pc = "sadd"]
             new == [on EXCEPT !.until = 0]
  <2>9. on \in StoreCalls /\ on.pc = "sadd" /\ on.s = call.s
    BY <1>0 DEF StoreCalls
  <2>3. /\ new \in StoreCalls /\ new.pc = "sadd" /\ new.s = call.s
        /\ storeCall' = [storeCall EXCEPT ![c] = new]
    <3>1. storeCall' = [storeCall EXCEPT ![c] = new]
      BY <2>2
    <3> HIDE DEF on
    <3>2. new \in StoreCalls /\ new.pc = "sadd" /\ new.s = call.s
      BY <2>9 DEF StoreCalls
    <3> QED  BY <3>1, <3>2
  <2> HIDE DEF new
  <2>4. /\ storeCall' \in [Callers -> StoreCalls]
        /\ storeCall'[c] = new
        /\ \A d \in Callers \ {c} : storeCall'[d] = storeCall[d]
        /\ LimiterLifts'
    BY <2>1, <2>3, StoreFrame
  <2>5. /\ sessionKey' \in [Sessions -> Nat] /\ expiresAt' \in [Sessions -> Nat]
        /\ \A s \in Sessions \ {call.s} : sessionKey'[s] = sessionKey[s]
    <3>1. call.left \in Nat /\ call.until \in Nat
      BY <1>0 DEF StoreCalls
    <3>2. now + call.left \in Nat
      BY <1>0, <3>1
    <3>3. sessionKey \in [Sessions -> Nat] /\ expiresAt \in [Sessions -> Nat]
      BY DEF StoreInv, StoreTyped
    <3> HIDE DEF call
    <3>4. expiresAt' \in [Sessions -> Nat]
      BY <2>2, <3>1, <3>3
    <3> QED  BY <2>2, <3>2, <3>3, <3>4
  <2>6. StoreTyped'
    BY <2>1, <2>4, <2>5 DEF StoreInv, StoreTyped, limiterVars
  <2>7. ASSUME NEW d \in Callers
        PROVE  CallInv(storeCall'[d], created', deleted', overtaken')
    BY <2>1, <2>3, <2>4 DEF StoreInv, CallInv
  <2>8. LoggedOutForGood' /\ (\A s \in Sessions : sessionKey'[s] # Absent => s \in created')
    BY <2>1, <2>5 DEF StoreInv, StoreTyped, LoggedOutForGood, Live
  <2> QED  BY <2>4, <2>6, <2>7, <2>8 DEF StoreInv
<1>5. CASE CreateAdd(c)
  <2> DEFINE new == [call EXCEPT !.pc = "expire"]
  <2>1. /\ new \in StoreCalls /\ new.pc = "expire"
        /\ storeCall' = [storeCall EXCEPT ![c] = new]
    BY <1>a, <1>5 DEF CreateAdd
  <2> HIDE DEF new
  <2>2. /\ storeCall[c].pc = "sadd"
        /\ UNCHANGED <<sessionKey, expiresAt, created, deleted, overtaken>>
        /\ userSet' = Members(userSet, userSetLapse) \cup {call.s}
    BY <1>5 DEF CreateAdd, At, call
  <2>3. userSet' \subseteq Sessions
    BY <1>0, <2>2 DEF Members, CallInv, StoreInv, StoreTyped, call
  <2>4. CallInv(new, created, deleted, overtaken)
    BY <2>1 DEF CallInv
  <2> QED  BY <2>1, <2>2, <2>3, <2>4, IndexKeeps
<1>6. CASE CreateExpire(c) \/ DeleteSet(c) \/ DeleteMember(c)
  <2>1. /\ storeCall' = [storeCall EXCEPT ![c] = Free]
        /\ UNCHANGED <<sessionKey, expiresAt, created, deleted, overtaken>>
        /\ storeCall[c].pc # "limit"
    BY <1>6 DEF CreateExpire, DeleteSet, DeleteMember, Done, At
  <2>2. userSet' \subseteq Sessions
    BY <1>6 DEF CreateExpire, DeleteSet, DeleteMember, Members, StoreInv, StoreTyped
  <2> QED  BY <1>0, <2>1, <2>2, IndexKeeps
<1>11. CASE CreateTTL(c)
  <2>1. /\ storeCall[c].pc = "ttl" /\ userSet' \subseteq Sessions
        /\ UNCHANGED <<sessionKey, expiresAt, userSet, created, deleted, overtaken>>
    BY <1>11 DEF CreateTTL, At, StoreInv, StoreTyped
  <2>2. CASE Live(call.until) /\ storeCall' = [storeCall EXCEPT ![c] =
               [call EXCEPT !.pc = "set", !.left = call.until - now]]
    <3> DEFINE left == call.until - now
               mid == [call EXCEPT !.pc = "set"]
               new == [mid EXCEPT !.left = left]
    <3>1. left \in Nat
      BY <1>0, <2>2 DEF Live, StoreCalls
    <3>2. mid \in StoreCalls /\ mid.pc = "set" /\ mid.s = call.s
      BY <1>0 DEF StoreCalls
    <3>3. storeCall' = [storeCall EXCEPT ![c] = new]
      BY <2>2
    <3> HIDE DEF left, mid
    <3>4. new \in StoreCalls /\ new.pc = "set" /\ new.s = call.s
      BY <3>1, <3>2 DEF StoreCalls
    <3>5. CallInv(new, created, deleted, overtaken)
      <4> HIDE DEF new
      <4> QED  BY <1>0, <2>1, <3>4 DEF CallInv, call
    <3>6. new \in StoreCalls /\ storeCall' = [storeCall EXCEPT ![c] = new]
      BY <3>3, <3>4
    <3> HIDE DEF new
    <3> QED  BY <2>1, <3>5, <3>6, IndexKeeps
  <2>3. CASE Done(c)
    BY <1>0, <2>1, <2>3, IndexKeeps DEF Done
  <2> QED  BY <1>11, <2>2, <2>3 DEF CreateTTL, call
<1>7. CASE UpdateExists(c)
  <2>1. /\ storeCall[c].pc = "exists" /\ userSet' \subseteq Sessions
        /\ UNCHANGED <<sessionKey, expiresAt, userSet, created, deleted, overtaken>>
    BY <1>7 DEF UpdateExists, At, StoreInv, StoreTyped
  <2>2. CASE Step(c, "ttl")
    <3> DEFINE new == [call EXCEPT !.pc = "ttl"]
    <3>1. /\ new \in StoreCalls /\ new.pc = "ttl" /\ new.s = call.s
          /\ storeCall' = [storeCall EXCEPT ![c] = new]
      BY <1>a, <2>2
    <3> HIDE DEF new
    <3>2. CallInv(new, created, deleted, overtaken)
      BY <1>0, <2>1, <3>1 DEF CallInv, call
    <3> QED  BY <2>1, <3>1, <3>2, IndexKeeps
  <2>3. CASE Done(c)
    BY <1>0, <2>1, <2>3, IndexKeeps DEF Done
  <2> QED  BY <1>7, <2>2, <2>3 DEF UpdateExists
<1>8. CASE DeleteKey(c)
  <2> DEFINE new == [call EXCEPT !.pc = "srem"]
  <2>1. /\ new \in StoreCalls /\ new.pc = "srem"
        /\ storeCall' = [storeCall EXCEPT ![c] = new]
    BY <1>a, <1>8 DEF DeleteKey
  <2> HIDE DEF new
  <2>2. /\ storeCall[c].pc = "del" /\ {storeCall[c].s} \in SUBSET Sessions
        /\ Remove({storeCall[c].s}) /\ UNCHANGED <<expiresAt, userSet, created>>
    BY <1>0, <1>8 DEF DeleteKey, At, CallInv, call
  <2> QED  BY <2>1, <2>2, RemoveKeeps
<1>9. CASE DeleteAll(c)
  <2> DEFINE new == [Free EXCEPT !.pc = "dels", !.ids = Members(userSet, userSetLapse)]
  <2>1. /\ new \in StoreCalls /\ new.pc = "dels"
        /\ storeCall' = [storeCall EXCEPT ![c] = new]
    BY <1>9 DEF DeleteAll, Free, StoreCalls, Members, StoreInv, StoreTyped
  <2> HIDE DEF new
  <2>2. /\ storeCall[c].pc = "free" /\ userSet' \subseteq Sessions
        /\ UNCHANGED <<sessionKey, expiresAt, userSet, created, deleted, overtaken>>
    BY <1>9 DEF DeleteAll, At, StoreInv, StoreTyped
  <2>3. CallInv(new, created, deleted, overtaken)
    BY <2>1 DEF CallInv
  <2> QED  BY <2>1, <2>2, <2>3, IndexKeeps
<1>10. CASE DeleteEach(c)
  <2>1. /\ storeCall[c].pc = "dels" /\ UNCHANGED <<expiresAt, userSet, created>>
        /\ userSet' \subseteq Sessions
    BY <1>10 DEF DeleteEach, At, StoreInv, StoreTyped
  <2>2. CASE Step(c, "delset") /\ UNCHANGED <<sessionKey, deleted, overtaken>>
    <3> DEFINE new == [call EXCEPT !.pc = "delset"]
    <3>1. /\ new \in StoreCalls /\ new.pc = "delset"
          /\ storeCall' = [storeCall EXCEPT ![c] = new]
      BY <1>a, <2>2
    <3> HIDE DEF new
    <3>2. CallInv(new, created, deleted, overtaken)
      BY <3>1 DEF CallInv
    <3> QED  BY <2>1, <2>2, <3>1, <3>2, IndexKeeps
  <2>3. ASSUME NEW s \in storeCall[c].ids,
               Remove({s}) \/ UNCHANGED <<sessionKey, deleted, overtaken>>,
               storeCall' = [storeCall EXCEPT ![c].ids = @ \ {s}]
        PROVE  StoreInv'
    <3> DEFINE new == [call EXCEPT !.ids = @ \ {s}]
    <3>1. /\ new \in StoreCalls /\ new.pc = call.pc
          /\ storeCall' = [storeCall EXCEPT ![c] = new]
          /\ {s} \in SUBSET Sessions
      BY <1>0, <2>3 DEF StoreCalls, StoreInv, StoreTyped, call
    <3> HIDE DEF new
    <3>2. CASE Remove({s})
      BY <2>1, <3>1, <3>2, RemoveKeeps DEF call
    <3>3. CASE UNCHANGED <<sessionKey, deleted, overtaken>>
      <4>1. CallInv(new, created, deleted, overtaken)
        BY <2>1, <3>1 DEF CallInv, call
      <4> QED  BY <2>1, <3>1, <3>3, <4>1, IndexKeeps DEF call
    <3> QED  BY <2>3, <3>2, <3>3
  <2> QED  BY <1>10, <2>2, <2>3 DEF DeleteEach
<1> QED
  BY <1>1, <1>2, <1>3, <1>4, <1>5, <1>6, <1>7, <1>8, <1>9, <1>10, <1>11
  DEF StoreStep

\* The rate limiter, a request that dies, and time.
LEMMA LimiterKeeps ==
  ASSUME StoreInv,
         \/ \E c \in Callers :
              \/ LimiterStep(c) /\ UNCHANGED <<now, sessionKey, expiresAt, userSet,
                                               userSetLapse, created, deleted, overtaken>>
              \/ Abort(c)
         \/ (Later \/ UNCHANGED now) /\ UNCHANGED <<storeVars, limiterVars>>
  PROVE  StoreInv'
<1> USE RedisAssumption DEF StoreInv
<1>0. now \in Nat /\ now \in 0..MaxTime /\ rateLapse \in Nat
  BY DEF StoreTyped
<1>1. ASSUME NEW c \in Callers, LimiterStep(c),
             UNCHANGED <<now, sessionKey, expiresAt, userSet, userSetLapse, created, deleted,
                         overtaken>>
      PROVE  StoreInv'
  <2>1. LoggedOutForGood' /\ (\A s \in Sessions : sessionKey'[s] # Absent => s \in created')
    BY <1>1 DEF LoggedOutForGood, Live
  <2>2. CASE Allow(c)
    <3>1. storeCall[c].pc = "free" /\ UNCHANGED rateDied
      BY <2>2 DEF Allow, At
    <3>2. rateCount' \in Nat /\ rateLapse' \in Nat
      BY <1>0, <2>2 DEF Allow, AddLapse, Forever, StoreTyped
    <3>3. storeCall' \in {storeCall, [storeCall EXCEPT ![c].pc = "limit"]}
      BY <2>2 DEF Allow, Step
    <3>4. /\ storeCall' \in [Callers -> StoreCalls]
          /\ storeCall'[c].pc \in {"free", "limit"}
          /\ \A d \in Callers \ {c} : storeCall'[d] = storeCall[d]
      BY <3>1, <3>3 DEF StoreTyped, StoreCalls
    <3>5. StoreTyped'
      BY <1>1, <3>1, <3>2, <3>4 DEF StoreTyped
    <3>6. ASSUME NEW d \in Callers
          PROVE  CallInv(storeCall'[d], created', deleted', overtaken')
      BY <1>1, <3>4 DEF CallInv
    <3>7. LimiterLifts'
      <4>1. CASE Live(rateLapse)
        <5>1. rateLapse' = rateLapse
          BY <2>2, <4>1 DEF Allow, AddLapse
        <5> QED  BY <3>1, <3>4, <5>1 DEF LimiterLifts, At
      <4>2. CASE ~Live(rateLapse)
        <5>1. Step(c, "limit")
          BY <2>2, <4>2 DEF Allow
        <5>2. storeCall'[c].pc = "limit"
          BY <5>1 DEF Step, StoreTyped, StoreCalls
        <5> QED  BY <5>2 DEF LimiterLifts, At
      <4> QED  BY <4>1, <4>2
    <3> QED  BY <2>1, <3>5, <3>6, <3>7
  <2>3. CASE AllowExpire(c)
    <3>1. /\ storeCall' = [storeCall EXCEPT ![c] = Free] /\ UNCHANGED <<rateCount, rateDied>>
          /\ Free.pc = "free" /\ Free \in StoreCalls
      BY <2>3 DEF AllowExpire, Done, Free, StoreCalls
    <3>2. rateLapse' \in Nat /\ rateLapse' # Forever
      BY <1>0, <2>3, StoreAssumption DEF AllowExpire, ExpireLapse, Forever, Live, Durations
    <3>3. StoreTyped'
      BY <1>1, <3>1, <3>2 DEF StoreTyped
    <3>4. ASSUME NEW d \in Callers
          PROVE  CallInv(storeCall'[d], created', deleted', overtaken')
      BY <1>1, <3>1 DEF CallInv, StoreTyped
    <3> QED  BY <2>1, <3>2, <3>3, <3>4 DEF LimiterLifts
  <2>4. CASE Reset(c)
    <3>1. UNCHANGED <<storeCall, rateDied>> /\ rateCount' = 0 /\ rateLapse' = 0
      BY <2>4 DEF Reset, Absent
    <3>2. StoreTyped'
      BY <1>1, <3>1 DEF StoreTyped
    <3>3. 0 # Forever
      BY DEF Forever
    <3> QED  BY <1>1, <2>1, <3>1, <3>2, <3>3 DEF LimiterLifts, CallInv
  <2> QED  BY <1>1, <2>2, <2>3, <2>4 DEF LimiterStep
<1>2. ASSUME NEW c \in Callers, Abort(c) PROVE StoreInv'
  <2>1. /\ storeCall' = [storeCall EXCEPT ![c] = Free]
        /\ UNCHANGED <<now, sessionKey, expiresAt, userSet, userSetLapse, created,
                       deleted, overtaken, rateCount, rateLapse>>
        /\ Free.pc = "free" /\ Free \in StoreCalls
    BY <1>2 DEF Abort, Done, Free, StoreCalls
  <2>2. rateDied' \in BOOLEAN
    BY <1>2, Zenon DEF Abort
  <2>3. rateDied' <=> (rateDied \/ storeCall[c].pc = "limit")
    BY <1>2 DEF Abort, At
  <2>4. StoreTyped'
    BY <2>1, <2>2 DEF StoreTyped
  <2>5. ASSUME NEW d \in Callers
        PROVE  CallInv(storeCall'[d], created', deleted', overtaken')
    BY <2>1 DEF CallInv, StoreTyped
  <2>6. LoggedOutForGood' /\ (\A s \in Sessions : sessionKey'[s] # Absent => s \in created')
    BY <2>1 DEF LoggedOutForGood, Live
  <2>7. LimiterLifts'
    BY <2>1, <2>3 DEF LimiterLifts, At, StoreTyped
  <2> QED  BY <2>4, <2>5, <2>6, <2>7
<1>3. CASE (Later \/ UNCHANGED now) /\ UNCHANGED <<storeVars, limiterVars>>
  <2>1. now' \in 0..MaxTime /\ now' >= now
    BY <1>0, <1>3 DEF Later
  <2>2. StoreTyped'
    BY <1>3, <2>1 DEF StoreTyped, storeVars, limiterVars
  <2>3. \A s \in Sessions : Live(sessionKey[s])' => Live(sessionKey[s])
    BY <1>0, <1>3, <2>1 DEF StoreTyped, Live, storeVars
  <2>4. LoggedOutForGood'
    BY <1>3, <2>2, <2>3 DEF LoggedOutForGood, storeVars, StoreTyped
  <2>5. LimiterLifts'
    BY <1>3 DEF LimiterLifts, At, storeVars, limiterVars
  <2>6. /\ \A s \in Sessions : sessionKey'[s] # Absent => s \in created'
        /\ \A c \in Callers : CallInv(storeCall'[c], created', deleted', overtaken')
    BY <1>3 DEF storeVars
  <2> QED  BY <2>2, <2>4, <2>5, <2>6
<1> QED  BY <1>1, <1>2, <1>3

LEMMA StoreKeeps ==
  ASSUME StoreInv,
         \/ SessionStoreNext
         \/ (Later \/ UNCHANGED now) /\ UNCHANGED <<storeVars, limiterVars>>
  PROVE  StoreInv'
BY StoreStepKeeps, LimiterKeeps DEF SessionStoreNext

----------------------------------------------------------------------------
(* The redis cache service.                                                *)

CacheCalls == [pc : {"quiet", "add", "renew", "remove", "active", "count"},
               gpu : GPUs \cup {NoGPU}]

CacheTyped ==
  /\ now \in Nat
  /\ gpuKey \in [GPUs -> Nat] /\ gpuValue \in [GPUs -> BOOLEAN]
  /\ available \subseteq GPUs /\ availableLapse \in Nat
  /\ rate \in Nat /\ rateEnd \in Nat
  /\ cacheCall \in [Callers -> CacheCalls]

\* A call that adds a GPU to the set does so for the value the GPU's key has,
\* unless another call wrote the GPU meanwhile.
WriterInv(call) ==
  /\ IF call.pc \in {"add", "renew", "remove"} THEN call.gpu \in GPUs ELSE call.gpu = NoGPU
  /\ call.pc \in {"add", "renew"} => gpuValue[call.gpu] \/ call.gpu \in contended

Counting == {c \in Callers : In(c, "count")}
Counted == IF Live(rateEnd) THEN rate ELSE 0
Limit == RateLimit + Cardinality(Callers) - 1

\* The requests that have read the counter and not yet counted are part of
\* the overshoot.
RateInv == Counted + Cardinality(Counting) <= Limit

CacheInv ==
  /\ CacheTyped
  /\ \A c \in Callers : WriterInv(cacheCall[c])
  /\ RateInv
  /\ CacheSound

LEMMA CountingFinite ==
  /\ IsFiniteSet(Counting) /\ IsFiniteSet(Counting')
  /\ Cardinality(Callers) \in Nat \ {0}
  /\ Cardinality(Counting) \in Nat /\ Cardinality(Counting) <= Cardinality(Callers)
  /\ Cardinality(Counting') \in Nat /\ Cardinality(Counting') <= Cardinality(Callers)
<1>1. /\ Counting \subseteq Callers /\ Counting' \subseteq Callers
      /\ IsFiniteSet(Callers) /\ Callers # {}
  BY RedisAssumption DEF Counting
<1> QED  BY <1>1, FS_Subset, FS_CardinalityType, FS_EmptySet

LEMMA CacheStart ==
  ASSUME CacheServiceInit
  PROVE  CacheInv
<1>1. /\ \A c \in Callers : cacheCall[c] = Quiet /\ Quiet.pc = "quiet" /\ Quiet.gpu = NoGPU
      /\ cacheCall \in [Callers -> CacheCalls]
  BY DEF CacheServiceInit, Quiet, CacheCalls
<1>2. CacheTyped
  <2>1. gpuValue \in [GPUs -> BOOLEAN]
    BY DEF CacheServiceInit
  <2>2. gpuKey \in [GPUs -> Nat]
    BY DEF CacheServiceInit, Absent
  <2> QED  BY <1>1, <2>1, <2>2 DEF CacheServiceInit, CacheTyped, Absent
<1>3. Counting = {} /\ Counted = 0 /\ rate = 0
  BY <1>1 DEF CacheServiceInit, Counting, In, Counted
<1>4. RateInv /\ OvershootBounded
  BY <1>3, CountingFinite, FS_EmptySet, CacheAssumption DEF RateInv, Limit, OvershootBounded
<1>5. ListedIsAvailable
  BY DEF CacheServiceInit, ListedIsAvailable, Members
<1> QED  BY <1>1, <1>2, <1>4, <1>5 DEF CacheInv, WriterInv, CacheSound

\* A step that is not one of the rate limit leaves the overshoot as it was.
LEMMA RateFrame ==
  ASSUME CacheInv, CacheTyped', UNCHANGED <<now, rateVars>>,
         \A c \in Callers : In(c, "count")' <=> In(c, "count")
  PROVE  RateInv' /\ OvershootBounded'
<1>1. Counting' = Counting /\ Counted' = Counted
  BY DEF Counting, Counted, Live, rateVars
<1> QED  BY <1>1 DEF CacheInv, CacheSound, RateInv, Limit, OvershootBounded, rateVars

\* A step that is not one of the GPU copies: calls that are about a GPU stay.
LEMMA CopyFrame ==
  ASSUME CacheInv, UNCHANGED <<now, gpuVars>>,
         \A c \in Callers : \/ cacheCall'[c] = cacheCall[c]
                            \/ /\ cacheCall[c].pc \notin {"add", "renew", "remove"}
                               /\ cacheCall'[c].pc \notin {"add", "renew", "remove"}
                               /\ cacheCall'[c].gpu = NoGPU
  PROVE  ListedIsAvailable' /\ \A c \in Callers : WriterInv(cacheCall[c])'
<1>1. \A c \in Callers : WriterInv(cacheCall[c])'
  BY DEF CacheInv, WriterInv, gpuVars
<1>2. \A c \in Callers : cacheCall'[c].gpu = cacheCall[c].gpu
  BY DEF CacheInv, WriterInv
<1>3. \A g : Busy(g)' = Busy(g)
  BY <1>2 DEF Busy
<1>4. ListedIsAvailable'
  BY <1>3 DEF CacheInv, CacheSound, ListedIsAvailable, Members, Live, gpuVars
<1> QED  BY <1>1, <1>4

LEMMA GPUKeeps ==
  ASSUME CacheInv, UNCHANGED now, NEW c \in Callers,
         \/ \E g \in GPUs, up \in BOOLEAN : SetGPU(c, g, up)
         \/ SetGPUAdd(c) \/ SetGPURenew(c) \/ SetGPURemove(c)
  PROVE  CacheInv'
<1> DEFINE call == cacheCall[c]
<1>0. /\ call \in CacheCalls /\ WriterInv(call)
      /\ Quiet \in CacheCalls /\ Quiet.pc = "quiet" /\ Quiet.gpu = NoGPU
      /\ gpuValue \in [GPUs -> BOOLEAN] /\ gpuKey \in [GPUs -> Nat]
      /\ now \in Nat /\ CacheTTL \in Nat /\ Forever \in Nat
      /\ available \subseteq GPUs /\ availableLapse \in Nat
      /\ cacheCall \in [Callers -> CacheCalls]
  BY RedisAssumption, CacheAssumption
     DEF CacheInv, CacheTyped, Quiet, CacheCalls, Durations, Forever
<1>1. ASSUME NEW g \in GPUs, NEW up \in BOOLEAN, SetGPU(c, g, up) PROVE CacheInv'
  <2> DEFINE new == [Quiet EXCEPT !.pc = IF up THEN "add" ELSE "remove", !.gpu = g]
  <2>1. /\ new \in CacheCalls /\ new.gpu = g
        /\ new.pc = IF up THEN "add" ELSE "remove"
    BY DEF Quiet, CacheCalls
  <2>2. /\ cacheCall' = [cacheCall EXCEPT ![c] = new]
        /\ call.pc = "quiet"
        /\ gpuKey' = [gpuKey EXCEPT ![g] = now + CacheTTL]
        /\ gpuValue' = [gpuValue EXCEPT ![g] = up]
        /\ contended' = IF Busy(g) # {} THEN contended \cup {g} ELSE contended
        /\ UNCHANGED <<available, availableLapse, skipped, jobVars, rateVars>>
    BY <1>1 DEF SetGPU, In
  <2> HIDE DEF new
  <2>3. /\ cacheCall' \in [Callers -> CacheCalls] /\ cacheCall'[c] = new
        /\ \A d \in Callers \ {c} : cacheCall'[d] = cacheCall[d]
    BY <1>0, <2>1, <2>2
  <2>4. /\ gpuKey' \in [GPUs -> Nat] /\ gpuValue' \in [GPUs -> BOOLEAN]
        /\ (gpuValue'[g] <=> up)
        /\ \A h \in GPUs \ {g} : gpuKey'[h] = gpuKey[h] /\ gpuValue'[h] = gpuValue[h]
    <3>1. gpuValue' \in [GPUs -> BOOLEAN]
      BY <1>0, <2>2, Zenon
    <3> QED  BY <1>0, <2>2, <3>1
  <2>5. CacheTyped'
    BY <1>0, <2>2, <2>3, <2>4 DEF CacheInv, CacheTyped, rateVars
  <2>6. ASSUME NEW d \in Callers PROVE WriterInv(cacheCall[d])'
    <3>1. CASE d = c
      BY <2>1, <2>3, <2>4, <3>1 DEF WriterInv
    <3>2. CASE d # c
      <4>1. WriterInv(cacheCall[d]) /\ cacheCall'[d] = cacheCall[d]
        BY <2>3, <3>2 DEF CacheInv
      <4>2. CASE cacheCall[d].gpu = g
        <5>1. g \in contended'
          BY <2>2, <4>2 DEF Busy
        <5> QED  BY <4>1, <4>2, <5>1 DEF WriterInv
      <4>3. CASE cacheCall[d].gpu # g
        BY <2>2, <2>4, <4>1, <4>3 DEF WriterInv
      <4> QED  BY <4>2, <4>3
    <3> QED  BY <3>1, <3>2
  <2>7. ListedIsAvailable'
    <3> SUFFICES ASSUME NEW h \in Members(available, availableLapse)',
                        Live(gpuKey[h])', ~gpuValue'[h]
                 PROVE  Busy(h)' # {} \/ h \in contended' \/ h \in skipped'
      BY DEF ListedIsAvailable
    <3>1. CASE h = g
      BY <2>1, <2>3, <3>1 DEF Busy
    <3>2. CASE h # g
      <4>1. /\ h \in Members(available, availableLapse) /\ h \in GPUs
            /\ Live(gpuKey[h]) /\ ~gpuValue[h]
        BY <1>0, <2>2, <2>4, <3>2 DEF Members, Live
      <4>2. Busy(h) # {} \/ h \in contended \/ h \in skipped
        BY <4>1 DEF CacheInv, CacheSound, ListedIsAvailable
      <4>3. c \notin Busy(h)
        BY <1>0, <2>2, <4>1, CacheAssumption DEF Busy, WriterInv
      <4>4. Busy(h) \ {c} \subseteq Busy(h)'
        BY <2>3 DEF Busy
      <4> QED  BY <2>2, <4>2, <4>3, <4>4
    <3> QED  BY <3>1, <3>2
  <2>8. RateInv' /\ OvershootBounded'
    <3>1. \A d \in Callers : In(d, "count")' <=> In(d, "count")
      BY <2>1, <2>2, <2>3 DEF In
    <3> QED  BY <2>2, <2>5, <3>1, RateFrame DEF call
  <2> QED  BY <2>5, <2>6, <2>7, <2>8 DEF CacheInv, CacheSound
<1>2. CASE SetGPUAdd(c)
  <2>1. /\ call.pc = "add" /\ call.gpu \in GPUs
        /\ gpuValue[call.gpu] \/ call.gpu \in contended
        /\ cacheCall' = [cacheCall EXCEPT ![c].pc = "renew"]
        /\ UNCHANGED <<gpuKey, gpuValue, contended, jobVars, rateVars>>
        /\ skipped \subseteq skipped'
    BY <1>0, <1>2 DEF SetGPUAdd, In, WriterInv
  <2>2. /\ cacheCall' \in [Callers -> CacheCalls]
        /\ cacheCall'[c].pc = "renew" /\ cacheCall'[c].gpu = call.gpu
        /\ \A d \in Callers \ {c} : cacheCall'[d] = cacheCall[d]
    BY <1>0, <2>1 DEF CacheCalls
  <2>3. /\ available' \subseteq GPUs /\ availableLapse' \in Nat
        /\ Members(available, availableLapse)' \subseteq
             Members(available, availableLapse) \cup {call.gpu}
    BY <1>0, <1>2, <2>1 DEF SetGPUAdd, Members, AddLapse, Live
  <2>4. CacheTyped'
    BY <1>0, <2>1, <2>2, <2>3 DEF CacheInv, CacheTyped, rateVars
  <2>5. ASSUME NEW d \in Callers PROVE WriterInv(cacheCall[d])'
    BY <2>1, <2>2 DEF CacheInv, WriterInv
  <2>6. ListedIsAvailable'
    <3>1. \A g \in GPUs : Busy(g)' = Busy(g)
      BY <2>2 DEF Busy
    <3> SUFFICES ASSUME NEW h \in Members(available, availableLapse)',
                        Live(gpuKey[h])', ~gpuValue'[h]
                 PROVE  Busy(h)' # {} \/ h \in contended' \/ h \in skipped'
      BY DEF ListedIsAvailable
    <3>2. CASE h = call.gpu
      BY <2>1, <3>2
    <3>3. CASE h # call.gpu
      <4>1. h \in Members(available, availableLapse) /\ h \in GPUs
        BY <1>0, <2>3, <3>3 DEF Members
      <4>2. Busy(h) # {} \/ h \in contended \/ h \in skipped
        BY <2>1, <4>1 DEF CacheInv, CacheSound, ListedIsAvailable, Live
      <4> QED  BY <2>1, <3>1, <4>1, <4>2
    <3> QED  BY <3>2, <3>3
  <2>7. RateInv' /\ OvershootBounded'
    <3>1. \A d \in Callers : In(d, "count")' <=> In(d, "count")
      BY <2>1, <2>2 DEF In
    <3> QED  BY <2>1, <2>4, <3>1, RateFrame
  <2> QED  BY <2>4, <2>5, <2>6, <2>7 DEF CacheInv, CacheSound
<1>3. CASE SetGPURenew(c) \/ SetGPURemove(c)
  <2>1. /\ call.pc \in {"renew", "remove"} /\ call.gpu \in GPUs
        /\ cacheCall' = [cacheCall EXCEPT ![c] = Quiet]
        /\ UNCHANGED <<gpuKey, gpuValue, contended, jobVars, rateVars>>
        /\ skipped \subseteq skipped'
    BY <1>0, <1>3 DEF SetGPURenew, SetGPURemove, In, WriterInv
  <2>2. /\ cacheCall' \in [Callers -> CacheCalls] /\ cacheCall'[c] = Quiet
        /\ \A d \in Callers \ {c} : cacheCall'[d] = cacheCall[d]
    BY <1>0, <2>1
  <2>3. /\ available' \subseteq GPUs /\ availableLapse' \in Nat
        /\ Members(available, availableLapse)' \subseteq Members(available, availableLapse)
    BY <1>0, <1>3
       DEF SetGPURenew, SetGPURemove, Members, ExpireLapse, Live, Absent
  <2>4. \/ gpuValue[call.gpu] \/ call.gpu \in contended \/ call.gpu \in skipped'
        \/ call.gpu \notin Members(available, availableLapse)'
    <3>1. CASE SetGPURenew(c)
      BY <1>0, <3>1 DEF SetGPURenew, In, WriterInv
    <3>2. CASE SetGPURemove(c)
      BY <3>2 DEF SetGPURemove, Members
    <3> QED  BY <1>3, <3>1, <3>2
  <2>5. CacheTyped'
    BY <1>0, <2>1, <2>2, <2>3 DEF CacheInv, CacheTyped, rateVars
  <2>6. ASSUME NEW d \in Callers PROVE WriterInv(cacheCall[d])'
    BY <1>0, <2>1, <2>2 DEF CacheInv, WriterInv
  <2>7. ListedIsAvailable'
    <3> SUFFICES ASSUME NEW h \in Members(available, availableLapse)',
                        Live(gpuKey[h])', ~gpuValue'[h]
                 PROVE  Busy(h)' # {} \/ h \in contended' \/ h \in skipped'
      BY DEF ListedIsAvailable
    <3>1. Busy(h) # {} \/ h \in contended \/ h \in skipped
      BY <2>1, <2>3 DEF CacheInv, CacheSound, ListedIsAvailable, Live
    <3>2. CASE h = call.gpu
      BY <2>1, <2>4, <3>2
    <3>3. CASE h # call.gpu
      <4>1. Busy(h) \subseteq Busy(h)'
        BY <2>2, <3>3 DEF Busy
      <4> QED  BY <2>1, <3>1, <4>1
    <3> QED  BY <3>2, <3>3
  <2>8. RateInv' /\ OvershootBounded'
    <3>1. \A d \in Callers : In(d, "count")' <=> In(d, "count")
      BY <1>0, <2>1, <2>2 DEF In
    <3> QED  BY <2>1, <2>5, <3>1, RateFrame
  <2> QED  BY <2>5, <2>6, <2>7, <2>8 DEF CacheInv, CacheSound
<1> QED  BY <1>1, <1>2, <1>3

LEMMA RateKeeps ==
  ASSUME CacheInv, UNCHANGED now, NEW c \in Callers, RateRead(c) \/ RateCount(c)
  PROVE  CacheInv'
<1>0. /\ cacheCall \in [Callers -> CacheCalls] /\ now \in Nat
      /\ Quiet \in CacheCalls /\ Quiet.pc = "quiet" /\ Quiet.gpu = NoGPU
      /\ rate \in Nat /\ rateEnd \in Nat /\ RateTTL \in Nat /\ RateLimit \in Nat
  BY CacheAssumption DEF CacheInv, CacheTyped, Quiet, CacheCalls, Durations
<1>1. /\ cacheCall' \in [Callers -> CacheCalls]
      /\ cacheCall[c].pc \notin {"add", "renew", "remove"}
      /\ cacheCall'[c].pc \notin {"add", "renew", "remove"}
      /\ cacheCall'[c].gpu = NoGPU
      /\ \A d \in Callers \ {c} : cacheCall'[d] = cacheCall[d]
      /\ UNCHANGED gpuVars
  BY <1>0 DEF RateRead, RateCount, In, CacheInv, WriterInv, CacheCalls
<1>2. ListedIsAvailable' /\ \A d \in Callers : WriterInv(cacheCall[d])'
  BY <1>1, CopyFrame
<1>3. CacheTyped' /\ RateInv' /\ OvershootBounded'
  <2>1. CASE RateRead(c)
    <3>1. Counted < RateLimit /\ UNCHANGED rateVars /\ cacheCall'[c].pc = "count"
      BY <1>0, <2>1 DEF RateRead, Counted, CacheCalls
    <3>2. CacheTyped'
      BY <1>0, <1>1, <3>1 DEF CacheInv, CacheTyped, gpuVars, rateVars
    <3>3. Counted' = Counted /\ Counted \in Nat
      BY <1>0, <3>1 DEF Counted, Live, rateVars
    <3>4. RateInv'
      BY <1>0, <3>1, <3>3, CountingFinite DEF RateInv, Limit
    <3> QED  BY <3>1, <3>2, <3>4 DEF CacheInv, CacheSound, OvershootBounded, rateVars
  <2>2. CASE RateCount(c)
    <3>1. /\ cacheCall[c].pc = "count" /\ cacheCall'[c].pc = "quiet"
          /\ rate' = Counted + 1 /\ rateEnd' = now + RateTTL
      BY <1>0, <2>2 DEF RateCount, Counted, In
    <3>2. Counted \in Nat /\ rate' \in Nat
      BY <1>0, <3>1 DEF Counted
    <3>3. CacheTyped'
      BY <1>0, <1>1, <3>1, <3>2 DEF CacheInv, CacheTyped, gpuVars
    <3>4. Counting' = Counting \ {c} /\ c \in Counting
      BY <1>1, <3>1 DEF Counting, In
    <3>5. Cardinality(Counting') = Cardinality(Counting) - 1
      BY <3>4, CountingFinite, FS_RemoveElement
    <3>6. Counted' <= rate' /\ Counted' \in Nat
      BY <3>2 DEF Counted
    <3>7. Counted + Cardinality(Counting) <= Limit /\ Limit \in Int
      BY <1>0, CountingFinite DEF CacheInv, RateInv, Limit
    <3>8. RateInv'
      BY <3>1, <3>2, <3>5, <3>6, <3>7, CountingFinite DEF RateInv, Limit
    <3>9. OvershootBounded'
      BY <3>1, <3>2, <3>5, <3>7, CountingFinite DEF OvershootBounded, Limit
    <3> QED  BY <3>3, <3>8, <3>9
  <2> QED  BY <2>1, <2>2
<1> QED  BY <1>2, <1>3 DEF CacheInv, CacheSound

\* The copies of the job, an invalidation, and time.
LEMMA RestKeeps ==
  ASSUME CacheInv,
         \/ /\ UNCHANGED now
            /\ \/ \E c \in Callers :
                    \/ \E st \in {"running", "completed"} : SetJobStatus(c, st)
                    \/ SetJobActive(c)
               \/ \E g \in GPUs : InvalidateGPU(g)
               \/ InvalidateUser
         \/ (Later \/ UNCHANGED now) /\ UNCHANGED cacheVars
  PROVE  CacheInv'
<1>0. /\ cacheCall \in [Callers -> CacheCalls] /\ now \in Nat
      /\ Quiet \in CacheCalls /\ Quiet.pc = "quiet" /\ Quiet.gpu = NoGPU
  BY DEF CacheInv, CacheTyped, Quiet, CacheCalls
<1>1. ASSUME UNCHANGED now, NEW c \in Callers,
             \/ \E st \in {"running", "completed"} : SetJobStatus(c, st)
             \/ SetJobActive(c)
      PROVE  CacheInv'
  <2>1. UNCHANGED <<gpuVars, rateVars>>
    BY <1>1 DEF SetJobStatus, SetJobActive
  <2>2. /\ cacheCall' \in [Callers -> CacheCalls]
        /\ \/ cacheCall'[c] = cacheCall[c]
           \/ /\ cacheCall[c].pc \in {"quiet", "active"}
              /\ cacheCall'[c].pc \in {"quiet", "active"}
              /\ cacheCall'[c].gpu = NoGPU
        /\ \A d \in Callers \ {c} : cacheCall'[d] = cacheCall[d]
    BY <1>0, <1>1 DEF SetJobStatus, SetJobActive, In, CacheInv, WriterInv, CacheCalls
  <2>3. CacheTyped'
    BY <1>1, <2>1, <2>2 DEF CacheInv, CacheTyped, gpuVars, rateVars
  <2>4. ListedIsAvailable' /\ \A d \in Callers : WriterInv(cacheCall[d])'
    BY <1>1, <2>1, <2>2, CopyFrame
  <2>5. \A d \in Callers : In(d, "count")' <=> In(d, "count")
    BY <2>2 DEF In
  <2>6. RateInv' /\ OvershootBounded'
    BY <1>1, <2>1, <2>3, <2>5, RateFrame
  <2> QED  BY <2>3, <2>4, <2>6 DEF CacheInv, CacheSound
<1>2. ASSUME UNCHANGED now, NEW g \in GPUs, InvalidateGPU(g) PROVE CacheInv'
  <2>1. /\ gpuKey' = [gpuKey EXCEPT ![g] = 0]
        /\ UNCHANGED <<gpuValue, available, availableLapse, cacheCall, contended,
                       skipped, jobVars, rateVars>>
    BY <1>2 DEF InvalidateGPU, Absent
  <2>2. CacheTyped'
    BY <1>2, <2>1 DEF CacheInv, CacheTyped, rateVars
  <2>3. \A h \in GPUs : Live(gpuKey[h])' => Live(gpuKey[h])
    BY <1>0, <1>2, <2>1 DEF CacheInv, CacheTyped, Live
  <2>4. ListedIsAvailable'
    BY <1>2, <2>1, <2>2, <2>3
       DEF CacheInv, CacheTyped, CacheSound, ListedIsAvailable, Members, Busy, Live
  <2>5. \A d \in Callers : WriterInv(cacheCall[d])'
    BY <2>1 DEF CacheInv, WriterInv
  <2>6. RateInv' /\ OvershootBounded'
    BY <1>2, <2>1, <2>2, RateFrame DEF In
  <2> QED  BY <2>2, <2>4, <2>5, <2>6 DEF CacheInv, CacheSound
<1>3. ASSUME UNCHANGED now, InvalidateUser PROVE CacheInv'
  <2>1. UNCHANGED <<gpuVars, rateVars, cacheCall>>
    BY <1>3 DEF InvalidateUser
  <2>2. CacheTyped'
    BY <1>3, <2>1 DEF CacheInv, CacheTyped, gpuVars, rateVars
  <2>3. ListedIsAvailable' /\ \A d \in Callers : WriterInv(cacheCall[d])'
    BY <1>3, <2>1, CopyFrame
  <2>4. RateInv' /\ OvershootBounded'
    BY <1>3, <2>1, <2>2, RateFrame DEF In
  <2> QED  BY <2>2, <2>3, <2>4 DEF CacheInv, CacheSound
<1>4. CASE (Later \/ UNCHANGED now) /\ UNCHANGED cacheVars
  <2>1. now' \in Nat /\ now' >= now /\ UNCHANGED <<gpuVars, rateVars, cacheCall>>
    BY <1>0, <1>4 DEF Later, cacheVars, gpuVars, rateVars
  <2>2. CacheTyped'
    BY <2>1 DEF CacheInv, CacheTyped, gpuVars, rateVars
  <2>3. /\ \A h \in GPUs : Live(gpuKey[h])' => Live(gpuKey[h])
        /\ Members(available, availableLapse)' \subseteq Members(available, availableLapse)
        /\ Members(available, availableLapse) \subseteq GPUs
    BY <1>0, <2>1 DEF CacheInv, CacheTyped, Live, Members, gpuVars
  <2>4. ListedIsAvailable'
    BY <2>1, <2>3 DEF CacheInv, CacheSound, ListedIsAvailable, Busy, gpuVars
  <2>5. \A d \in Callers : WriterInv(cacheCall[d])'
    BY <2>1 DEF CacheInv, WriterInv, gpuVars
  <2>6. Counting' = Counting /\ Counted' <= Counted /\ Counted \in Nat /\ Counted' \in Nat
    BY <1>0, <2>1 DEF Counting, In, Counted, Live, CacheInv, CacheTyped, rateVars
  <2>7. RateInv'
    <3>1. Counted + Cardinality(Counting) <= Limit /\ Limit \in Int /\ Limit' = Limit
      BY CountingFinite, CacheAssumption DEF CacheInv, RateInv, Limit
    <3> QED  BY <2>6, <3>1, CountingFinite DEF RateInv
  <2>8. OvershootBounded'
    BY <2>1 DEF CacheInv, CacheSound, OvershootBounded, rateVars
  <2> QED  BY <2>2, <2>4, <2>5, <2>7, <2>8 DEF CacheInv, CacheSound
<1> QED  BY <1>1, <1>2, <1>3, <1>4

LEMMA CacheKeeps ==
  ASSUME CacheInv,
         CacheServiceNext \/ ((Later \/ UNCHANGED now) /\ UNCHANGED cacheVars)
  PROVE  CacheInv'
BY GPUKeeps, RateKeeps, RestKeeps DEF CacheServiceNext

----------------------------------------------------------------------------
(* The pricing engine and the bill.                                        *)

\* The funds locked are the hourly rates of the session, and the charge is
\* what they make for its minutes.
BillInv ==
  /\ rental.hourlyRate \in Nat /\ rental.vramRate \in Nat /\ rental.powerRate \in Nat
  /\ rental.vram \in Nat /\ rental.estPower \in Nat /\ rental.minutes \in Nat
  /\ rental.power \in Nat \cup {Unpowered}
  /\ rental.locked = rental.hourlyRate * UnitsPer + rental.vramRate + rental.powerRate
  /\ rental.phase = "ended" =>
       /\ rental.billedPower \in Nat
       /\ rental.charged = Cost(rental, rental.billedPower, rental.minutes)

RentalFields ==
  [phase : {"none", "active", "ended"}, vram : Int, estPower : Int, power : Int,
   hourlyRate : Int, vramRate : Int, powerRate : Int, locked : Int, minutes : Int,
   readings : Int, total : Int, charged : Int, billedPower : Int, fee : Int, earnings : Int]

PricingInv ==
  /\ table \in Tables
  /\ rental \in RentalFields
  /\ quotes \subseteq BaseRate(watched)
  /\ BillInv

LEMMA BaseRateNat ==
  ASSUME table \in Tables, NEW name
  PROVE  BaseRate(name) \subseteq Nat
<1>1. \A k \in DOMAIN table : table[k] \in Nat
  BY PricingAssumption
<1>2. FamilyRate(name) \in Nat
  BY <1>1 DEF FamilyRate
<1>3. Partial(name) \subseteq DOMAIN table
  BY DEF Partial
<1> QED  BY <1>1, <1>2, <1>3 DEF BaseRate

LEMMA PricingStart ==
  ASSUME PricingInit
  PROVE  PricingInv
<1>1. table \in Tables /\ quotes = {} /\ rental = NoRental
  BY DEF PricingInit
<1>2. NoRental \in RentalFields
  BY DEF NoRental, RentalFields, Unpowered
<1>3. BillInv
  BY <1>1, PricingAssumption DEF BillInv, NoRental
<1> QED  BY <1>1, <1>2, <1>3 DEF PricingInv

\* A product of nonnegative integers grows with its factors.
LEMMA Monotone ==
  ASSUME NEW a \in Nat, NEW b \in Nat, NEW c \in Nat, NEW d \in Nat, a <= b, c <= d
  PROVE  a * c <= b * d
<1>1. a * c <= b * c
  OBVIOUS
<1>2. b * c <= b * d
  OBVIOUS
<1>3. a * c \in Nat /\ b * c \in Nat /\ b * d \in Nat
  OBVIOUS
<1> QED  BY <1>1, <1>2, <1>3

\* What a session costs is an integer.
LEMMA CostInt ==
  ASSUME PricingInv, NEW power \in Nat, NEW minutes \in Nat
  PROVE  Cost(rental, power, minutes) \in Int
<1> DEFINE a == rental.hourlyRate * UnitsPer * UnitsPer
           b == rental.vramRate * rental.vram
           c == rental.powerRate * power
<1>1. a \in Nat /\ b \in Nat /\ c \in Nat
  BY PricingAssumption DEF PricingInv, BillInv
<1>2. Cost(rental, power, minutes) = minutes * (a + b + c)
  BY DEF Cost
<1> HIDE DEF a, b, c
<1> QED  BY <1>1, <1>2

LEMMA RatesKept ==
  ASSUME UNCHANGED <<table, watched>>
  PROVE  BaseRate(watched)' = BaseRate(watched)
BY DEF BaseRate, Partial, FamilyRate

LEMMA SessionStarts ==
  ASSUME PricingInv, NEW name, NEW vram \in VRAMs, NEW power \in Powers,
         StartSession(name, vram, power)
  PROVE  PricingInv'
<1>0. \E base \in BaseRate(name) :
        /\ rental' = [NoRental EXCEPT
             !.phase = "active", !.vram = vram, !.estPower = power,
             !.hourlyRate = Adjusted(base), !.vramRate = VRAMHourlyRate(vram),
             !.powerRate = PowerHourlyRate(power),
             !.locked = TotalHourlyRate(base, vram, power)]
        /\ quotes' = IF name = watched THEN quotes \cup {base} ELSE quotes
  BY Zenon DEF StartSession
<1>1. PICK base \in BaseRate(name) :
        /\ rental' = [NoRental EXCEPT
             !.phase = "active", !.vram = vram, !.estPower = power,
             !.hourlyRate = Adjusted(base), !.vramRate = VRAMHourlyRate(vram),
             !.powerRate = PowerHourlyRate(power),
             !.locked = TotalHourlyRate(base, vram, power)]
        /\ quotes' = IF name = watched THEN quotes \cup {base} ELSE quotes
  BY <1>0, Zenon
<1>2. base \in Nat /\ vram \in Nat /\ power \in Nat /\ UnitsPer \in Nat
  BY <1>1, BaseRateNat, PricingAssumption DEF PricingInv
<1> DEFINE v == VRAMHourlyRate(vram)
           w == PowerHourlyRate(power)
           total == TotalHourlyRate(base, vram, power)
<1>3. Adjusted(base) = base
  BY <1>2 DEF Adjusted, DemandMultiplier, SupplyBonus
<1>4. v \in Nat /\ w \in Nat
  BY <1>2, PricingAssumption DEF VRAMHourlyRate, PowerHourlyRate
<1>5. total = base * UnitsPer + v + w
  BY <1>3 DEF TotalHourlyRate
<1>6. rental' = [phase |-> "active", vram |-> vram, estPower |-> power, power |-> Unpowered,
                 hourlyRate |-> base, vramRate |-> v, powerRate |-> w, locked |-> total,
                 minutes |-> 0, readings |-> 0, total |-> 0, charged |-> 0,
                 billedPower |-> 0, fee |-> 0, earnings |-> 0]
  BY <1>1, <1>3 DEF NoRental
<1> HIDE DEF v, w, total
<1>7. base * UnitsPer \in Nat
  BY <1>2
<1>8. rental' \in RentalFields /\ BillInv'
  BY <1>2, <1>4, <1>5, <1>6, <1>7 DEF RentalFields, BillInv, Unpowered
<1>9. UNCHANGED <<table, watched>>
  BY DEF StartSession
<1>10. BaseRate(watched)' = BaseRate(watched)
  BY <1>9, RatesKept
<1>11. quotes' \subseteq BaseRate(watched)'
  BY <1>1, <1>10 DEF PricingInv
<1> QED  BY <1>8, <1>9, <1>11 DEF PricingInv

LEMMA PricingKeeps ==
  ASSUME PricingInv, PricingNext \/ UNCHANGED pricingVars
  PROVE  PricingInv'
<1>0. /\ rental \in RentalFields /\ BillInv
      /\ UNCHANGED <<table, watched>> => BaseRate(watched)' = BaseRate(watched)
  BY RatesKept DEF PricingInv
<1>1. ASSUME UNCHANGED <<table, watched, quotes>>, rental' \in RentalFields, BillInv'
      PROVE  PricingInv'
  BY <1>0, <1>1 DEF PricingInv
<1>2. ASSUME NEW m \in ModelNames, NEW v \in VRAMs, NEW p \in Powers, Estimate(m, v, p)
      PROVE  PricingInv'
  BY <1>0, <1>1, <1>2 DEF Estimate, BillInv, Cost
<1>3. ASSUME NEW m \in ModelNames, NEW v \in VRAMs, NEW p \in Powers, StartSession(m, v, p)
      PROVE  PricingInv'
  BY <1>3, SessionStarts
<1>4. ASSUME NEW p \in Powers, UsageUpdate(p) PROVE PricingInv'
  <2>1. CASE rental' = rental
    BY <1>0, <1>1, <1>4, <2>1 DEF UsageUpdate, BillInv, Cost
  <2>2. CASE rental' # rental
    <3> DEFINE cost == Cost(rental, p, 1)
    <3>1. rental' = [rental EXCEPT !.power = p, !.readings = @ + 1, !.total = @ + cost]
      BY <1>4, <2>2 DEF UsageUpdate
    <3>2. cost \in Int /\ p \in Nat
      BY CostInt, PricingAssumption
    <3> HIDE DEF cost
    <3> DEFINE more == rental.readings + 1
               sum == rental.total + cost
    <3>3. p \in Int /\ more \in Int /\ sum \in Int
      BY <1>0, <3>2 DEF RentalFields
    <3>4. rental' = [rental EXCEPT !.power = p, !.readings = more, !.total = sum]
      BY <1>0, <3>1 DEF RentalFields
    <3> HIDE DEF more, sum
    <3>5. rental' \in RentalFields
      BY <1>0, <3>3, <3>4 DEF RentalFields
    <3>6. /\ rental'.power = p /\ rental'.phase = rental.phase
          /\ rental'.hourlyRate = rental.hourlyRate /\ rental'.vramRate = rental.vramRate
          /\ rental'.powerRate = rental.powerRate /\ rental'.vram = rental.vram
          /\ rental'.estPower = rental.estPower /\ rental'.minutes = rental.minutes
          /\ rental'.locked = rental.locked /\ rental'.charged = rental.charged
          /\ rental'.billedPower = rental.billedPower
      BY <1>0, <3>1 DEF RentalFields
    <3>7. BillInv'
      BY <1>0, <3>2, <3>6 DEF BillInv, Cost
    <3> QED  BY <1>1, <1>4, <3>5, <3>7 DEF UsageUpdate
  <2> QED  BY <2>1, <2>2
<1>5. CASE TimePasses
  <2>1. rental' = [rental EXCEPT !.minutes = @ + 30] /\ rental.phase = "active"
    BY <1>5 DEF TimePasses
  <2>2. rental' \in RentalFields
    BY <1>0, <2>1 DEF RentalFields
  <2>3. /\ rental'.minutes = rental.minutes + 30 /\ rental'.phase = "active"
        /\ rental'.hourlyRate = rental.hourlyRate /\ rental'.vramRate = rental.vramRate
        /\ rental'.powerRate = rental.powerRate /\ rental'.vram = rental.vram
        /\ rental'.estPower = rental.estPower /\ rental'.power = rental.power
        /\ rental'.locked = rental.locked
    BY <1>0, <2>1 DEF RentalFields
  <2>4. BillInv'
    BY <1>0, <2>3 DEF BillInv
  <2> QED  BY <1>1, <1>5, <2>2, <2>4 DEF TimePasses
<1>6. CASE EndSession
  <2> DEFINE power == IF rental.power = Unpowered THEN rental.estPower ELSE rental.power
             cost == Cost(rental, power, rental.minutes)
  <2>1. power \in Nat
    BY <1>0 DEF BillInv
  <2>2. cost \in Int
    <3> HIDE DEF power
    <3> QED  BY <1>0, <2>1, CostInt DEF BillInv
  <2>3. rental' = [rental EXCEPT !.phase = "ended", !.billedPower = power,
                     !.total = cost, !.charged = cost, !.fee = 5 * cost,
                     !.earnings = 95 * cost]
    BY <1>6 DEF EndSession
  <2>4. cost = Cost(rental, power, rental.minutes)
    OBVIOUS
  <2> HIDE DEF power, cost
  <2>5. rental' \in RentalFields
    <3> DEFINE fee == 5 * cost
               earnings == 95 * cost
    <3>1. fee \in Int /\ earnings \in Int /\ power \in Int
      BY <2>1, <2>2
    <3>2. rental' = [rental EXCEPT !.phase = "ended", !.billedPower = power,
                       !.total = cost, !.charged = cost, !.fee = fee,
                       !.earnings = earnings]
      BY <2>3
    <3> HIDE DEF fee, earnings
    <3> QED  BY <1>0, <2>2, <3>1, <3>2 DEF RentalFields
  <2>6. /\ rental'.minutes = rental.minutes /\ rental'.phase = "ended"
        /\ rental'.hourlyRate = rental.hourlyRate /\ rental'.vramRate = rental.vramRate
        /\ rental'.powerRate = rental.powerRate /\ rental'.vram = rental.vram
        /\ rental'.estPower = rental.estPower /\ rental'.power = rental.power
        /\ rental'.locked = rental.locked
        /\ rental'.billedPower = power /\ rental'.charged = cost
    BY <1>0, <2>3 DEF RentalFields
  <2>7. BillInv'
    BY <1>0, <2>1, <2>4, <2>6 DEF BillInv, Cost
  <2> QED  BY <1>1, <1>6, <2>5, <2>7 DEF EndSession
<1>7. CASE NextSession
  <2>1. rental' = NoRental /\ UNCHANGED <<table, watched, quotes>>
    BY <1>7 DEF NextSession
  <2>2. NoRental \in RentalFields
    BY DEF NoRental, RentalFields, Unpowered
  <2>3. BillInv'
    BY <2>1, PricingAssumption DEF BillInv, NoRental
  <2> QED  BY <1>1, <2>1, <2>2, <2>3
<1>8. CASE UNCHANGED pricingVars
  BY <1>0, <1>1, <1>8 DEF pricingVars, BillInv, Cost
<1> QED  BY <1>2, <1>3, <1>4, <1>5, <1>6, <1>7, <1>8 DEF PricingNext

LEMMA QuotesHold ==
  ASSUME PricingInv
  PROVE  QuotesAgree
<1>1. ASSUME watched \in DOMAIN ShownRates
      PROVE  quotes \subseteq {ShownRates[watched]}
  BY <1>1 DEF PricingInv, ShownRates, BaseRate
<1>2. ASSUME Cardinality(quotes) > 1
      PROVE  /\ watched \notin DOMAIN table
             /\ \E j, k \in Partial(watched) : table[j] # table[k]
  <2>1. ASSUME NEW q, quotes \subseteq {q} PROVE FALSE
    <3>1. IsFiniteSet({q}) /\ Cardinality({q}) = 1
      BY FS_Singleton
    <3>2. Cardinality(quotes) <= 1 /\ Cardinality(quotes) \in Nat
      BY <2>1, <3>1, FS_Subset, FS_CardinalityType
    <3> QED  BY <1>2, <3>2
  <2>2. watched \notin DOMAIN table
    BY <2>1 DEF PricingInv, BaseRate
  <2>3. Partial(watched) # {}
    <3> SUFFICES ASSUME Partial(watched) = {} PROVE FALSE
      OBVIOUS
    <3>1. CASE FamilyRate(watched) # 0
      BY <2>1, <2>2, <3>1 DEF PricingInv, BaseRate
    <3>2. CASE FamilyRate(watched) = 0
      <4>1. quotes \subseteq {table[Default]}
        BY <2>2, <3>2 DEF PricingInv, BaseRate
      <4> QED  BY <2>1, <4>1
    <3> QED  BY <3>1, <3>2
  <2>4. quotes \subseteq {table[k] : k \in Partial(watched)}
    BY <2>2, <2>3 DEF PricingInv, BaseRate
  <2>5. PICK k \in Partial(watched) : TRUE
    BY <2>3
  <2>6. PICK q \in quotes : q # table[k]
    BY <2>1
  <2> QED  BY <2>2, <2>4, <2>6
<1> QED  BY <1>1, <1>2 DEF QuotesAgree

LEMMA HourHolds ==
  ASSUME PricingInv
  PROVE  HourCovered
<1> SUFFICES ASSUME rental.phase = "ended", rental.minutes <= 60,
                    rental.vram <= UnitsPer, rental.billedPower <= UnitsPer
             PROVE  rental.charged <= 60 * UnitsPer * rental.locked
  BY DEF HourCovered
<1> DEFINE h == rental.hourlyRate
           v == rental.vramRate
           w == rental.powerRate
           m == rental.minutes
           n == rental.vram
           p == rental.billedPower
           U == UnitsPer
<1>1. /\ h \in Nat /\ v \in Nat /\ w \in Nat /\ m \in Nat /\ n \in Nat /\ p \in Nat
      /\ U \in Nat /\ m <= 60 /\ n <= U /\ p <= U
      /\ rental.locked = h * U + v + w
      /\ rental.charged = m * (h * U * U + v * n + w * p)
  BY PricingAssumption DEF PricingInv, BillInv, Cost
<1> HIDE DEF h, v, w, m, n, p, U
<1> DEFINE a == h * U * U
           b == v * n
           c == w * p
           d == v * U
           e == w * U
<1>2. /\ a \in Nat /\ b \in Nat /\ c \in Nat /\ d \in Nat /\ e \in Nat
      /\ b <= d /\ c <= e
  BY <1>1, Monotone
<1>3. (h * U + v + w) * U = a + d + e
  BY <1>1
<1>4. rental.charged = m * (a + b + c)
  BY <1>1
<1> DEFINE less == a + b + c
           more == a + d + e
<1>5. less \in Nat /\ more \in Nat /\ less <= more
  <2> HIDE DEF a, b, c, d, e
  <2> QED  BY <1>2
<1>6. rental.charged = m * less /\ (h * U + v + w) * U = more
  BY <1>3, <1>4
<1> HIDE DEF a, b, c, d, e, less, more
<1>7. m * less <= 60 * more
  BY <1>1, <1>5, Monotone
<1>8. 60 * U * rental.locked = 60 * more
  <2> DEFINE l == h * U + v + w
  <2>1. l \in Nat /\ l * U = more /\ rental.locked = l
    BY <1>1, <1>6
  <2> HIDE DEF l
  <2> QED  BY <1>1, <2>1
<1> QED  BY <1>6, <1>7, <1>8 DEF U

----------------------------------------------------------------------------
(* The round-robin balancer.                                               *)

LEMMA ModUnique ==
  ASSUME NEW n \in Nat \ {0}, NEW q \in Int, NEW r \in 0..n - 1
  PROVE  (n * q + r) % n = r
OBVIOUS

LEMMA ModNext ==
  ASSUME NEW n \in Nat \ {0}, NEW x \in Nat
  PROVE  /\ x % n \in 0..n - 1
         /\ (x + 1) % n = IF (x % n) + 1 = n THEN 0 ELSE (x % n) + 1
<1>1. PICK q \in Nat, r \in 0..n - 1 : x = n * q + r /\ q = x \div n /\ r = x % n
  OBVIOUS
<1>2. CASE r + 1 = n
  <2>1. x + 1 = n * (q + 1) + 0
    BY <1>1, <1>2
  <2>2. q + 1 \in Int /\ 0 \in 0..n - 1
    BY <1>1
  <2>3. (n * (q + 1) + 0) % n = 0
    BY <2>2, ModUnique, Zenon
  <2>4. (x + 1) % n = 0
    BY <2>1, <2>3, Zenon
  <2> QED  BY <1>1, <1>2, <2>4
<1>3. CASE r + 1 # n
  <2>1. x + 1 = n * q + (r + 1) /\ r + 1 \in 0..n - 1 /\ q \in Int
    BY <1>1, <1>3
  <2>2. (n * q + (r + 1)) % n = r + 1
    BY <2>1, ModUnique, Zenon
  <2>3. (x + 1) % n = r + 1
    BY <2>1, <2>2, Zenon
  <2> QED  BY <1>1, <1>3, <2>3
<1> QED  BY <1>2, <1>3

\* How many requests ago instance i got its last one, when p got the last of
\* all and there are n in turn.
Ago(n, p, i) == IF i <= p THEN p - i ELSE p - i + n

\* The instances got b requests each, and the last few of the turn one more.
Level(count, n, p) ==
  \E b \in Nat, len \in 0..n - 1 :
    \A i \in 0..n - 1 : count[i] = IF Ago(n, p, i) < len THEN b + 1 ELSE b

\* The requests are within k of such a count, from below.
Near(count, n, p, k) ==
  \E even \in [0..n - 1 -> Nat] :
    /\ Level(even, n, p)
    /\ \A i \in 0..n - 1 : even[i] - k <= count[i] /\ count[i] <= even[i]

BalancerInv ==
  /\ current \in 0..CounterSize - 1
  /\ healthy \in 0..MaxInstances
  /\ listed \in [ProxyRequests -> {"none", "fresh", "stale"}]
  /\ served \in [0..MaxInstances - 1 -> Nat]
  /\ strays \in Nat /\ wraps \in Nat
  /\ \A r \in ProxyRequests : listed[r] = "fresh" => healthy > 0
  /\ healthy > 0 => Near(served, healthy, current % healthy, strays + wraps)

LEMMA BalancerStart ==
  ASSUME BalancerInit
  PROVE  BalancerInv
<1>1. /\ current \in 0..CounterSize - 1 /\ healthy \in 0..MaxInstances /\ ~(healthy > 0)
      /\ served \in [0..MaxInstances - 1 -> Nat] /\ strays \in Nat /\ wraps \in Nat
      /\ listed \in [ProxyRequests -> {"none", "fresh", "stale"}]
      /\ \A r \in ProxyRequests : listed[r] # "fresh"
  BY BalancerAssumption DEF BalancerInit
<1> QED  BY <1>1, Zenon DEF BalancerInv

\* One more request of the turn leaves the instances level.
LEMMA TurnKeepsLevel ==
  ASSUME NEW most \in Nat, NEW count \in [0..most - 1 -> Nat],
         NEW n \in Nat \ {0}, n <= most, NEW p \in 0..n - 1, Level(count, n, p),
         NEW next, next = IF p + 1 = n THEN 0 ELSE p + 1,
         NEW more, more = [count EXCEPT ![next] = @ + 1]
  PROVE  Level(more, n, next)
<1>1. PICK b \in Nat, len \in 0..n - 1 :
        \A i \in 0..n - 1 : count[i] = IF Ago(n, p, i) < len THEN b + 1 ELSE b
  BY DEF Level
<1>2. next \in 0..n - 1 /\ Ago(n, p, next) = n - 1 /\ Ago(n, next, next) = 0
  BY DEF Ago
<1>3. \A i \in 0..n - 1 : i # next => Ago(n, next, i) = Ago(n, p, i) + 1
  BY DEF Ago
<1>4. \A i \in 0..n - 1 : Ago(n, p, i) \in 0..n - 1
  BY DEF Ago
<1>5. more[next] = b + 1 /\ \A i \in 0..n - 1 : i # next => more[i] = count[i]
  BY <1>1, <1>2
<1>6. CASE len + 1 <= n - 1
  <2>1. \A i \in 0..n - 1 : more[i] = IF Ago(n, next, i) < len + 1 THEN b + 1 ELSE b
    <3> SUFFICES ASSUME NEW i \in 0..n - 1
                 PROVE  more[i] = IF Ago(n, next, i) < len + 1 THEN b + 1 ELSE b
      OBVIOUS
    <3>1. CASE i = next
      BY <1>2, <1>5, <3>1
    <3>2. CASE i # next
      <4> DEFINE k == Ago(n, p, i)
      <4>1. k \in 0..n - 1 /\ Ago(n, next, i) = k + 1 /\ more[i] = count[i]
        BY <1>3, <1>4, <1>5, <3>2
      <4>2. count[i] = IF k < len THEN b + 1 ELSE b
        BY <1>1
      <4> HIDE DEF k
      <4> QED  BY <4>1, <4>2
    <3> QED  BY <3>1, <3>2
  <2>2. len + 1 \in 0..n - 1
    BY <1>6
  <2> QED  BY <2>1, <2>2 DEF Level, Ago
<1>7. CASE ~(len + 1 <= n - 1)
  <2>1. \A i \in 0..n - 1 : i # next => Ago(n, p, i) < len
    <3> SUFFICES ASSUME NEW i \in 0..n - 1, i # next PROVE Ago(n, p, i) < len
      OBVIOUS
    <3> DEFINE k == Ago(n, p, i)
    <3>1. k # n - 1
      BY DEF Ago
    <3>2. k \in 0..n - 1
      BY <1>4
    <3> HIDE DEF k
    <3>3. k < len
      BY <1>7, <3>1, <3>2
    <3> QED  BY <3>3 DEF k
  <2>2. \A i \in 0..n - 1 : more[i] = b + 1
    BY <1>1, <1>5, <2>1
  <2>3. \A i \in 0..n - 1 : more[i] = IF Ago(n, next, i) < 0 THEN (b + 1) + 1 ELSE b + 1
    <3> SUFFICES ASSUME NEW i \in 0..n - 1
                 PROVE  more[i] = b + 1 /\ ~(Ago(n, next, i) < 0)
      BY Zenon
    <3> DEFINE k == Ago(n, next, i)
    <3>1. k \in Nat
      BY DEF Ago
    <3> HIDE DEF k
    <3>2. ~(k < 0)
      BY <3>1
    <3> QED  BY <2>2, <3>2 DEF k
  <2>4. b + 1 \in Nat /\ 0 \in 0..n - 1
    OBVIOUS
  <2> QED  BY <2>3, <2>4 DEF Level, Ago
<1> QED  BY <1>6, <1>7

\* A count that stays level goes up to the same for all.
LEMMA LevelUp ==
  ASSUME NEW n \in Nat \ {0}, NEW b \in Nat, NEW p \in 0..n - 1
  PROVE  Level([i \in 0..n - 1 |-> b], n, p)
<1>1. 0 \in 0..n - 1
  OBVIOUS
<1>2. \A i \in 0..n - 1 : ~(Ago(n, p, i) < 0)
  BY DEF Ago
<1> QED  BY <1>1, <1>2 DEF Level

LEMMA NobodyServed ==
  ASSUME NEW most \in Nat, NEW n \in Nat \ {0}, n <= most, NEW p \in 0..n - 1
  PROVE  Near([i \in 0..most - 1 |-> 0], n, p, 0)
<1> DEFINE even == [i \in 0..n - 1 |-> 0]
<1>1. Level(even, n, p) /\ even \in [0..n - 1 -> Nat]
  BY LevelUp
<1>2. \A i \in 0..n - 1 : even[i] = 0 /\ i \in 0..most - 1
  OBVIOUS
<1> HIDE DEF even
<1> QED  BY <1>1, <1>2 DEF Near

\* One more for one of them.
Plus(count, x) == [count EXCEPT ![x] = @ + 1]

LEMMA PlusOne ==
  ASSUME NEW most \in Nat, NEW count \in [0..most - 1 -> Nat], NEW x \in 0..most - 1
  PROVE  /\ Plus(count, x) \in [0..most - 1 -> Nat]
         /\ \A i \in 0..most - 1 :
              Plus(count, x)[i] = (IF i = x THEN count[i] + 1 ELSE count[i])
BY DEF Plus

LEMMA PlusNear ==
  ASSUME NEW a \in Nat, NEW b \in Nat, NEW k \in Nat, a - k <= b /\ b <= a
  PROVE  (a + 1) - k <= b + 1 /\ b + 1 <= a + 1
OBVIOUS

LEMMA JumpNear ==
  ASSUME NEW a \in Nat, NEW b \in Nat, NEW c \in Nat, NEW k \in Nat, NEW slack \in Nat,
         k + 1 <= slack, a - k <= c /\ c <= a, a = b \/ a = b + 1
  PROVE  (b + 1) - slack <= c /\ c <= b + 1
OBVIOUS

\* The next of the turn is served.
LEMMA TurnKeepsNear ==
  ASSUME NEW most \in Nat, NEW count \in [0..most - 1 -> Nat],
         NEW n \in Nat \ {0}, n <= most, NEW p \in 0..n - 1,
         NEW k \in Nat, Near(count, n, p, k),
         NEW next, next = IF p + 1 = n THEN 0 ELSE p + 1
  PROVE  Near(Plus(count, next), n, next, k)
<1>1. PICK even \in [0..n - 1 -> Nat] :
        /\ Level(even, n, p)
        /\ \A i \in 0..n - 1 : even[i] - k <= count[i] /\ count[i] <= even[i]
  BY DEF Near
<1>2. next \in 0..n - 1 /\ next \in 0..most - 1 /\ n \in Nat
      /\ \A i \in 0..n - 1 : i \in 0..most - 1
  OBVIOUS
<1>3. /\ Plus(even, next) \in [0..n - 1 -> Nat]
      /\ \A i \in 0..n - 1 :
           Plus(even, next)[i] = (IF i = next THEN even[i] + 1 ELSE even[i])
  <2>1. n \in Nat /\ next \in 0..n - 1 /\ even \in [0..n - 1 -> Nat]
    BY <1>1, <1>2
  <2> QED  BY ONLY <2>1 DEF Plus
<1>4. \A i \in 0..most - 1 :
        Plus(count, next)[i] = (IF i = next THEN count[i] + 1 ELSE count[i])
  BY <1>2, PlusOne
<1>5. Level(Plus(even, next), n, next)
  <2>1. n <= n
    BY <1>2
  <2> QED  BY <1>1, <1>2, <2>1, TurnKeepsLevel DEF Plus
<1>6. ASSUME NEW i \in 0..n - 1
      PROVE  /\ Plus(even, next)[i] - k <= Plus(count, next)[i]
             /\ Plus(count, next)[i] <= Plus(even, next)[i]
  <2>1. even[i] - k <= count[i] /\ count[i] <= even[i]
    BY <1>1
  <2>2. even[i] \in Nat /\ count[i] \in Nat
    BY <1>1, <1>2
  <2>3. CASE i = next
    <3>1. /\ Plus(even, next)[i] = even[i] + 1
          /\ Plus(count, next)[i] = count[i] + 1
      BY <1>2, <1>3, <1>4, <2>3
    <3>2. (even[i] + 1) - k <= count[i] + 1 /\ count[i] + 1 <= even[i] + 1
      BY <2>1, <2>2, PlusNear
    <3> QED  BY <3>1, <3>2
  <2>4. CASE i # next
    <3>1. Plus(even, next)[i] = even[i] /\ Plus(count, next)[i] = count[i]
      BY <1>2, <1>3, <1>4, <2>4
    <3> QED  BY <2>1, <3>1
  <2> QED  BY <2>3, <2>4
<1> QED  BY <1>3, <1>5, <1>6 DEF Near

\* Wherever the counter jumps to, the instances are out of step by at most one
\* more.
LEMMA JumpKeepsNear ==
  ASSUME NEW most \in Nat, NEW count \in [0..most - 1 -> Nat],
         NEW n \in Nat \ {0}, n <= most, NEW p \in 0..n - 1, NEW q \in 0..n - 1,
         NEW k \in Nat, Near(count, n, p, k), NEW slack \in Nat, k + 1 <= slack
  PROVE  Near(count, n, q, slack)
<1>1. PICK even \in [0..n - 1 -> Nat] :
        /\ Level(even, n, p)
        /\ \A i \in 0..n - 1 : even[i] - k <= count[i] /\ count[i] <= even[i]
  BY DEF Near
<1>2. PICK b \in Nat, len \in 0..n - 1 :
        \A i \in 0..n - 1 : even[i] = IF Ago(n, p, i) < len THEN b + 1 ELSE b
  BY <1>1 DEF Level
<1> DEFINE most1 == b + 1
           evener == [i \in 0..n - 1 |-> most1]
<1>3. most1 \in Nat /\ evener \in [0..n - 1 -> Nat]
  OBVIOUS
<1>4. \A i \in 0..n - 1 : evener[i] = b + 1
  OBVIOUS
<1> HIDE DEF most1
<1>6. Level(evener, n, q)
  BY <1>3, LevelUp
<1> HIDE DEF evener
<1>5. \A i \in 0..n - 1 : evener[i] - slack <= count[i] /\ count[i] <= evener[i]
  <2> SUFFICES ASSUME NEW i \in 0..n - 1
               PROVE  evener[i] - slack <= count[i] /\ count[i] <= evener[i]
    OBVIOUS
  <2>1. even[i] - k <= count[i] /\ count[i] <= even[i] /\ count[i] \in Nat
    BY <1>1
  <2>2. even[i] \in Nat /\ (even[i] = b \/ even[i] = b + 1)
    BY <1>1, <1>2
  <2>3. evener[i] = b + 1
    BY <1>4
  <2>4. (b + 1) - slack <= count[i] /\ count[i] <= b + 1
    BY <2>1, <2>2, JumpNear
  <2> QED  BY <2>3, <2>4
<1> QED  BY <1>3, <1>5, <1>6 DEF Near

LEMMA BalancerKeeps ==
  ASSUME BalancerInv, BalancerNext \/ UNCHANGED balancerVars
  PROVE  BalancerInv'
<1>1. /\ current \in 0..CounterSize - 1 /\ healthy \in 0..MaxInstances
      /\ listed \in [ProxyRequests -> {"none", "fresh", "stale"}]
      /\ served \in [0..MaxInstances - 1 -> Nat]
      /\ strays \in Nat /\ wraps \in Nat /\ strays + wraps \in Nat
      /\ CounterSize \in Nat \ {0} /\ MaxInstances \in Nat
  BY BalancerAssumption DEF BalancerInv
<1>2. /\ \A r \in ProxyRequests : listed[r] = "fresh" => healthy > 0
      /\ healthy > 0 => Near(served, healthy, current % healthy, strays + wraps)
  BY Zenon DEF BalancerInv
<1>3. /\ (current + 1) % CounterSize \in 0..CounterSize - 1
      /\ (current + 1) % CounterSize # 0 => (current + 1) % CounterSize = current + 1
  <2>1. current % CounterSize = current
    BY <1>1
  <2>2. (current + 1) % CounterSize = IF current + 1 = CounterSize THEN 0 ELSE current + 1
    <3>1. current \in Nat
      BY <1>1
    <3>2. (current + 1) % CounterSize =
            IF (current % CounterSize) + 1 = CounterSize THEN 0 ELSE (current % CounterSize) + 1
      BY <1>1, <3>1, ModNext, Zenon
    <3> QED  BY <2>1, <3>2, Zenon
  <2> QED  BY <1>1, <2>2
<1>4. ASSUME Advance
      PROVE  /\ current' = (current + 1) % CounterSize
             /\ current' \in 0..CounterSize - 1 /\ current' \in Nat
             /\ wraps' \in Nat /\ wraps <= wraps'
             /\ IF current' = 0 THEN wraps' = wraps + 1 ELSE wraps' = wraps
  BY <1>1, <1>3, <1>4 DEF Advance
<1>5. healthy > 0 => /\ healthy \in Nat \ {0} /\ healthy <= MaxInstances
                     /\ current \in Nat /\ current % healthy \in 0..healthy - 1
  <2>1. healthy > 0 => healthy \in Nat \ {0} /\ healthy <= MaxInstances
    BY <1>1
  <2>2. current \in Nat
    BY <1>1
  <2> QED  BY <2>1, <2>2, ModNext
\* A counter value goes elsewhere.
<1>6. ASSUME Advance, strays' = strays + 1, UNCHANGED <<healthy, served>>,
             listed' \in [ProxyRequests -> {"none", "fresh", "stale"}],
             \A r \in ProxyRequests : listed'[r] = "fresh" => listed[r] = "fresh"
      PROVE  BalancerInv'
  <2>1. strays' \in Nat /\ strays' + wraps' \in Nat
        /\ (strays + wraps) + 1 <= strays' + wraps'
    BY <1>1, <1>4, <1>6
  <2>2. ASSUME healthy > 0
        PROVE  Near(served, healthy, current' % healthy, strays' + wraps')
    <3>1. current' % healthy \in 0..healthy - 1
      BY <1>4, <1>5, <1>6, <2>2, ModNext
    <3> DEFINE k == strays + wraps
               slack == strays' + wraps'
               q == current' % healthy
               p == current % healthy
    <3>2. /\ k \in Nat /\ slack \in Nat /\ k + 1 <= slack
          /\ p \in 0..healthy - 1 /\ q \in 0..healthy - 1
          /\ Near(served, healthy, p, k)
          /\ healthy \in Nat \ {0} /\ healthy <= MaxInstances
      BY <1>1, <1>2, <1>5, <2>1, <2>2, <3>1
    <3> HIDE DEF k, slack, q, p
    <3>3. Near(served, healthy, q, slack)
      BY <1>1, <3>2, JumpKeepsNear
    <3> QED  BY <3>3 DEF q, slack
  <2>3. \A r \in ProxyRequests : listed'[r] = "fresh" => healthy' > 0
    BY <1>2, <1>6
  <2> QED  BY <1>1, <1>4, <1>6, <2>1, <2>2, <2>3 DEF BalancerInv
<1>7. ASSUME NEW r \in ProxyRequests, Discover(r) PROVE BalancerInv'
  <2>1. /\ healthy > 0 /\ listed' = [listed EXCEPT ![r] = "fresh"]
        /\ UNCHANGED <<current, healthy, served, strays, wraps>>
    BY <1>7 DEF Discover
  <2>2. listed' \in [ProxyRequests -> {"none", "fresh", "stale"}]
    BY <1>1, <2>1
  <2>3. Near(served, healthy, current % healthy, strays + wraps) =>
          Near(served', healthy', current' % healthy', strays' + wraps')
    BY <2>1
  <2> QED  BY <1>1, <1>2, <2>1, <2>2, <2>3, Zenon DEF BalancerInv
<1>8. ASSUME NEW r \in ProxyRequests, Next(r) PROVE BalancerInv'
  <2>1. /\ listed[r] # "none" /\ listed' = [listed EXCEPT ![r] = "none"]
        /\ Advance /\ UNCHANGED healthy
    BY <1>8 DEF Next
  <2>2. /\ listed' \in [ProxyRequests -> {"none", "fresh", "stale"}]
        /\ \A q \in ProxyRequests : listed'[q] = "fresh" => listed[q] = "fresh"
    BY <1>1, <2>1
  <2>3. CASE listed[r] = "fresh"
    <3>1. /\ healthy > 0 /\ UNCHANGED strays
          /\ served' = [served EXCEPT ![current' % healthy] = @ + 1]
      BY <1>2, <1>4, <1>8, <2>1, <2>3 DEF Next, NextIndex
    <3>2. current' % healthy \in 0..healthy - 1
      BY <1>4, <1>5, <2>1, <3>1, ModNext
    <3>3. served' \in [0..MaxInstances - 1 -> Nat]
      BY <1>1, <1>5, <3>1, <3>2
    <3> DEFINE k == strays + wraps
               slack == strays' + wraps'
               p == current % healthy
               next == current' % healthy
    <3>4. /\ healthy \in Nat \ {0} /\ healthy <= MaxInstances
          /\ p \in 0..healthy - 1 /\ k \in Nat /\ Near(served, healthy, p, k)
          /\ served' = Plus(served, next)
      BY <1>1, <1>2, <1>5, <3>1 DEF Plus
    <3>5. Near(served', healthy, next, slack)
      <4>1. CASE current' = 0
        <5>1. slack \in Nat /\ k + 1 <= slack
          BY <1>1, <1>4, <2>1, <3>1, <4>1
        <5>2. next = 0
          BY <1>5, <3>1, <4>1
        <5> DEFINE last == healthy - 1
        <5>3. last \in 0..healthy - 1 /\ next = IF last + 1 = healthy THEN 0 ELSE last + 1
          BY <3>4, <5>2
        <5> HIDE DEF k, slack, p, next, last
        <5>4. Near(served, healthy, last, slack)
          BY <1>1, <3>4, <5>1, <5>3, JumpKeepsNear
        <5> QED  BY <1>1, <3>4, <5>1, <5>3, <5>4, TurnKeepsNear
      <4>2. CASE current' # 0
        <5>1. slack = k
          BY <1>4, <2>1, <3>1, <4>2
        <5>2. current' = current + 1
          BY <1>3, <1>4, <2>1, <4>2
        <5>3. next = IF p + 1 = healthy THEN 0 ELSE p + 1
          BY <1>5, <3>1, <5>2, ModNext
        <5> HIDE DEF k, slack, p, next
        <5> QED  BY <1>1, <3>4, <5>1, <5>3, TurnKeepsNear
      <4> QED  BY <4>1, <4>2
    <3>6. \A q \in ProxyRequests : listed'[q] = "fresh" => healthy' > 0
      BY <1>2, <2>1, <2>2
    <3> HIDE DEF k, p
    <3>7. current' \in 0..CounterSize - 1 /\ wraps' \in Nat
      BY <1>4, <2>1
    <3>8. healthy' > 0 => Near(served', healthy', current' % healthy', strays' + wraps')
      BY <2>1, <3>5
    <3> QED  BY <1>1, <2>1, <2>2, <3>1, <3>3, <3>6, <3>7, <3>8, Zenon DEF BalancerInv
  <2>4. CASE listed[r] # "fresh"
    <3>1. strays' = strays + 1 /\ UNCHANGED served
      BY <1>8, <2>4 DEF Next
    <3> QED  BY <1>6, <2>1, <2>2, <3>1, Zenon
  <2> QED  BY <2>3, <2>4
<1>9. CASE NextOther
  <2>1. /\ strays' = strays + 1 /\ Advance /\ UNCHANGED <<healthy, listed, served>>
    BY <1>9 DEF NextOther
  <2> QED  BY <1>1, <1>6, <2>1, Zenon
<1>10. CASE InstancesChange
  <2>1. /\ healthy' \in 0..MaxInstances /\ current' = current
        /\ listed' = [r \in ProxyRequests |-> IF listed[r] = "none" THEN "none" ELSE "stale"]
        /\ served' = [i \in 0..MaxInstances - 1 |-> 0]
        /\ strays' = 0 /\ wraps' = 0
    BY <1>10 DEF InstancesChange
  <2>2. /\ served' \in [0..MaxInstances - 1 -> Nat]
        /\ listed' \in [ProxyRequests -> {"none", "fresh", "stale"}]
        /\ \A r \in ProxyRequests : listed'[r] # "fresh"
        /\ strays' \in Nat /\ wraps' \in Nat /\ strays' + wraps' = 0
    BY <2>1
  <2>3. healthy' > 0 => Near(served', healthy', current' % healthy', 0)
    <3>1. healthy' \in Nat /\ current' \in Nat /\ healthy' <= MaxInstances
      BY <1>1, <2>1
    <3>2. healthy' > 0 => healthy' \in Nat \ {0}
      BY <3>1
    <3>3. healthy' \in Nat \ {0} => current' % healthy' \in 0..healthy' - 1
      BY <3>1, ModNext
    <3> QED  BY <1>1, <2>1, <3>1, <3>2, <3>3, NobodyServed
  <2>4. healthy' > 0 => Near(served', healthy', current' % healthy', strays' + wraps')
    BY <2>2, <2>3
  <2> QED  BY <1>1, <2>1, <2>2, <2>4, Zenon DEF BalancerInv
<1>11. CASE UNCHANGED balancerVars
  <2>1. UNCHANGED <<current, healthy, listed, served, strays, wraps>>
    BY <1>11 DEF balancerVars
  <2>2. Near(served, healthy, current % healthy, strays + wraps) =>
          Near(served', healthy', current' % healthy', strays' + wraps')
    BY <2>1 DEF Near, Level, Ago
  <2> QED  BY <1>1, <1>2, <2>1, <2>2, Zenon DEF BalancerInv
<1> QED  BY <1>7, <1>8, <1>9, <1>10, <1>11, Zenon DEF BalancerNext

LEMMA LevelNear ==
  ASSUME NEW a \in Nat, NEW b \in Nat, NEW c \in Nat, NEW d \in Nat, NEW k \in Nat,
         NEW m \in Nat, a <= c, d - (k + m) <= b, c <= d + 1
  PROVE  a <= b + 1 + k + m
OBVIOUS

LEMMA LevelIsFair ==
  ASSUME BalancerInv
  PROVE  RoundRobinFair
<1> SUFFICES ASSUME NEW i \in 0..healthy - 1, NEW j \in 0..healthy - 1
             PROVE  served[i] <= served[j] + 1 + strays + wraps
  BY Zenon DEF RoundRobinFair
<1>1. /\ healthy \in Nat /\ healthy > 0 /\ strays \in Nat /\ wraps \in Nat
      /\ served[i] \in Nat /\ served[j] \in Nat
  BY BalancerAssumption DEF BalancerInv
<1>2. Near(served, healthy, current % healthy, strays + wraps)
  BY <1>1, Zenon DEF BalancerInv
<1>3. PICK even \in [0..healthy - 1 -> Nat] :
        /\ Level(even, healthy, current % healthy)
        /\ \A h \in 0..healthy - 1 :
             even[h] - (strays + wraps) <= served[h] /\ served[h] <= even[h]
  BY <1>2 DEF Near
<1>4. even[i] \in Nat /\ even[j] \in Nat /\ even[i] <= even[j] + 1
  BY <1>3 DEF Level
<1>5. served[i] <= even[i] /\ even[j] - (strays + wraps) <= served[j]
  BY <1>3
<1> QED  BY <1>1, <1>4, <1>5, LevelNear

----------------------------------------------------------------------------
(* The stand-alone gateway.                                                *)

Handler == [at : Statements \cup {"new", "done", "dead"}, user : SimpleUsers \cup {""},
            gpu : SimpleGPUs \cup {""}, escrow : Int, read : Int]

\* What a request holds between its statements: it has a row from its INSERT
\* on, and it is made with values the gateway can be asked for.
HandlersSound ==
  /\ IsFiniteSet(rentals) /\ rentals \subseteq SimpleRequests
  /\ handler \in [SimpleRequests -> Handler]
  /\ gpuStatus \in [SimpleGPUs -> {"available", "rented"}]
  /\ \A r \in rentals : handler[r].at \in {"rent", "lock", "done", "dead"}
  /\ \A r \in SimpleRequests :
       /\ handler[r].at \in {"rent", "lock"} => r \in rentals
       /\ handler[r].at \in {"count", "create"} \/ r \in Renting => handler[r].user \in SimpleUsers
       /\ r \in Renting => handler[r].gpu \in SimpleGPUs

\* The requests whose funds are locked.
Settled(u) == {r \in ListRentals(u) : handler[r].at = "done"}

Escrow == [r \in SimpleRequests |-> handler[r].escrow]

\* A wallet's columns add up, and the one counts what is settled; a user
\* without a wallet brings no escrow, and has settled nothing unless an UPDATE
\* met no row.
Backed ==
  /\ DOMAIN purse \subseteq SimpleUsers
  /\ \A u \in DOMAIN purse :
       /\ purse[u].available \in Int /\ purse[u].locked \in Int
       /\ purse[u].available + purse[u].locked = InitialBalance
       /\ ~unwritten => purse[u].locked = Total(Escrow, Settled(u))
  /\ \A u : u \notin DOMAIN purse /\ ~unwritten => Settled(u) = {}
  /\ \A r \in SimpleRequests :
       /\ handler[r].user \notin DOMAIN purse
       /\ handler[r].at \in {"insert", "rent", "lock"}
       => handler[r].escrow <= 0

\* Requests that do not overlap find what they read still true; a rental that
\* a crash has cut off promises nothing.
Alone ==
  ~overlapped /\ ~unwritten =>
    /\ \A q, r \in Renting : q = r
    /\ \A q, r \in rentals \ Cut : handler[q].gpu = handler[r].gpu => q = r
    /\ \A r \in rentals \ Cut :
         handler[r].at # "rent" => gpuStatus[handler[r].gpu] = "rented"
    /\ \A r \in SimpleRequests :
         handler[r].at \in {"wallet", "insert"} => gpuStatus[handler[r].gpu] = "available"
    /\ \A u \in DOMAIN purse :
         /\ purse[u].available >= 0
         /\ \A r \in SimpleRequests :
              handler[r].at \in {"insert", "rent", "lock"} /\ handler[r].user = u =>
                handler[r].escrow <= purse[u].available

SimpleInv == HandlersSound /\ Backed /\ Alone

\* initDB leaves GPUs that nobody rents, and no wallet.
LEMMA SimpleStart ==
  ASSUME SimpleInit
  PROVE  SimpleInv
<1>1. HandlersSound
  <2>1. IsFiniteSet(rentals) /\ rentals = {}
    BY FS_EmptySet DEF SimpleInit
  <2>2. gpuStatus \in [SimpleGPUs -> {"available", "rented"}]
    BY DEF SimpleInit
  <2>3. \A r \in SimpleRequests : handler[r] = NewRequest
    BY DEF SimpleInit
  <2>4. NewRequest \in Handler /\ NewRequest.at = "new"
    BY DEF NewRequest, Handler
  <2>5. handler \in [SimpleRequests -> Handler]
    BY <2>4 DEF SimpleInit
  <2>6. \A r \in SimpleRequests : handler[r].at = "new" /\ r \notin Renting
    BY <2>3, <2>4 DEF Renting
  <2> QED  BY <2>1, <2>2, <2>5, <2>6, Zenon DEF HandlersSound
<1>2. Backed
  BY DEF SimpleInit, Backed, NewRequest, Settled, ListRentals
<1>3. Alone
  BY DEF SimpleInit, Alone, NewRequest, Renting
<1> QED  BY <1>1, <1>2, <1>3 DEF SimpleInv

\* A wallet's total changes only with the requests that are settled.
LEMMA SettledTotal ==
  ASSUME HandlersSound, HandlersSound', NEW u, Settled(u)' = Settled(u),
         \A s \in Settled(u) : handler'[s].escrow = handler[s].escrow
  PROVE  Total(Escrow', Settled(u)') = Total(Escrow, Settled(u))
<1> DEFINE S == Settled(u)
<1>1. IsFiniteSet(S) /\ S \subseteq SimpleRequests
  BY FS_Subset DEF HandlersSound, Settled, ListRentals
<1>2. \A s \in S : Escrow[s] \in Int /\ Escrow'[s] = Escrow[s]
  <2>1. \A s \in SimpleRequests : Escrow[s] = handler[s].escrow /\ Escrow'[s] = handler'[s].escrow
    BY DEF Escrow
  <2>2. \A s \in SimpleRequests : handler[s].escrow \in Int
    BY DEF HandlersSound, Handler
  <2> HIDE DEF S
  <2>3. \A s \in S : handler'[s].escrow = handler[s].escrow
    BY DEF S
  <2> QED  BY <1>1, <2>1, <2>2, <2>3
<1> HIDE DEF S
<1> DEFINE d == Escrow'
           e == Escrow
<1> HIDE DEF d, e
<1>3. (\A x \in S : e[x] \in Int) /\ (\A x \in S : d[x] = e[x])
  BY <1>2 DEF d, e
<1>4. Total(d, S) = Total(e, S)
  BY <1>1, <1>3, TotalSame
<1> QED  BY <1>4 DEF S, d, e

\* A step of one request leaves the others alone.
OthersKept(r) == \A s \in SimpleRequests \ {r} : handler'[s] = handler[s]

\* A user's total stays when none of the user's requests is settled.
LEMMA SettledKept ==
  ASSUME HandlersSound, HandlersSound', NEW r \in SimpleRequests, OthersKept(r),
         rentals' \ {r} = rentals \ {r}, NEW u, r \notin Settled(u), r \notin Settled(u)'
  PROVE  Total(Escrow', Settled(u)') = Total(Escrow, Settled(u))
<1>1. Settled(u)' = Settled(u)
  BY DEF HandlersSound, Settled, ListRentals, OthersKept
<1>2. \A s \in Settled(u) : handler'[s].escrow = handler[s].escrow
  BY DEF HandlersSound, Settled, ListRentals, OthersKept
<1> QED  BY <1>1, <1>2, SettledTotal

\* While the wallets stay as they are, a request that is not settled changes
\* nothing they show.
LEMMA BackedKept ==
  ASSUME SimpleInv, HandlersSound', NEW r \in SimpleRequests, OthersKept(r),
         rentals' \ {r} = rentals \ {r}, purse' = purse, ~unwritten' => ~unwritten,
         ~(r \in rentals /\ handler[r].at = "done"),
         ~(r \in rentals' /\ handler'[r].at = "done"),
         /\ handler'[r].user \notin DOMAIN purse
         /\ handler'[r].at \in {"insert", "rent", "lock"}
         => handler'[r].escrow <= 0
  PROVE  Backed'
<1>1. \A u : r \notin Settled(u) /\ r \notin Settled(u)'
  BY DEF Settled, ListRentals
<1>2. \A u : Total(Escrow', Settled(u)') = Total(Escrow, Settled(u))
  BY <1>1, SettledKept DEF SimpleInv
<1>3. ASSUME NEW u \in DOMAIN purse'
      PROVE  /\ purse'[u].available \in Int /\ purse'[u].locked \in Int
             /\ purse'[u].available + purse'[u].locked = InitialBalance
             /\ ~unwritten' => purse'[u].locked = Total(Escrow', Settled(u)')
  BY <1>2 DEF SimpleInv, Backed
<1>4. ASSUME NEW s \in SimpleRequests, handler'[s].user \notin DOMAIN purse',
             handler'[s].at \in {"insert", "rent", "lock"}
      PROVE  handler'[s].escrow <= 0
  <2>1. CASE s = r
    BY <1>4, <2>1
  <2>2. CASE s # r
    BY <1>4, <2>2 DEF SimpleInv, Backed, OthersKept
  <2> QED  BY <2>1, <2>2
<1>5. DOMAIN purse' \subseteq SimpleUsers
  BY DEF SimpleInv, Backed
<1>6. ASSUME NEW u, u \notin DOMAIN purse', ~unwritten'
      PROVE  Settled(u)' = {}
  <2>1. Settled(u) = {}
    BY <1>6 DEF SimpleInv, Backed
  <2>2. r \notin Settled(u)'
    BY <1>1
  <2> QED  BY <2>1, <2>2 DEF SimpleInv, HandlersSound, Settled, ListRentals, OthersKept
<1> QED  BY <1>3, <1>4, <1>5, <1>6 DEF Backed

\* The statements of createRental.
RentalStatements == {"gpu", "wallet", "insert", "rent", "lock"}

\* A request that goes on with the values it has keeps the handlers sound.
LEMMA SoundKept ==
  ASSUME HandlersSound, NEW r \in SimpleRequests, OthersKept(r),
         handler' \in [SimpleRequests -> Handler],
         gpuStatus' \in [SimpleGPUs -> {"available", "rented"}],
         rentals' \in {rentals, rentals \cup {r}},
         r \in rentals' => handler'[r].at \in {"rent", "lock", "done", "dead"},
         handler'[r].at \in {"rent", "lock"} => r \in rentals',
         handler'[r].at \in RentalStatements =>
           handler'[r].user \in SimpleUsers /\ handler'[r].gpu \in SimpleGPUs,
         handler'[r].at \in {"count", "create"} => handler'[r].user \in SimpleUsers
  PROVE  HandlersSound'
<1>1. IsFiniteSet(rentals') /\ rentals' \subseteq SimpleRequests
  BY FS_AddElement DEF HandlersSound
<1>2. ASSUME NEW q \in rentals'
      PROVE  handler'[q].at \in {"rent", "lock", "done", "dead"}
  <2>1. CASE q = r
    BY <1>2, <2>1
  <2>2. CASE q # r
    BY <1>1, <1>2, <2>2 DEF HandlersSound, OthersKept
  <2> QED  BY <2>1, <2>2
<1>3. ASSUME NEW q \in SimpleRequests
      PROVE  /\ handler'[q].at \in {"rent", "lock"} => q \in rentals'
             /\ handler'[q].at \in {"count", "create"} \/ q \in Renting' =>
                  handler'[q].user \in SimpleUsers
             /\ q \in Renting' => handler'[q].gpu \in SimpleGPUs
  <2>1. CASE q = r
    BY <2>1 DEF Renting, RentalStatements
  <2>2. CASE q # r
    <3>1. handler'[q] = handler[q] /\ (q \in Renting' <=> q \in Renting)
      BY <2>2 DEF OthersKept, Renting
    <3> QED  BY <2>2, <3>1 DEF HandlersSound
  <2> QED  BY <2>1, <2>2
<1> QED  BY <1>1, <1>2, <1>3, Zenon DEF HandlersSound

\* A request without a row, which writes nothing, disturbs nobody; what it
\* has read must hold.
LEMMA AloneKept ==
  ASSUME SimpleInv, NEW r \in SimpleRequests, OthersKept(r), r \notin rentals,
         UNCHANGED <<gpuStatus, purse, rentals>>,
         ~overlapped' => ~overlapped, ~unwritten' => ~unwritten,
         handler'[r].at \in RentalStatements /\ ~overlapped' /\ ~unwritten' => Renting \subseteq {r},
         handler'[r].at \in {"wallet", "insert"} /\ ~overlapped /\ ~unwritten =>
           gpuStatus[handler'[r].gpu] = "available",
         handler'[r].at \in {"insert", "rent", "lock"} /\ ~overlapped /\ ~unwritten =>
           \A u \in DOMAIN purse :
             handler'[r].user = u => handler'[r].escrow <= purse[u].available
  PROVE  Alone'
<1> SUFFICES ASSUME ~overlapped', ~unwritten'
             PROVE  /\ \A p, q \in Renting' : p = q
                    /\ \A p, q \in (rentals \ Cut)' : handler'[p].gpu = handler'[q].gpu => p = q
                    /\ \A q \in (rentals \ Cut)' :
                         handler'[q].at # "rent" => gpuStatus'[handler'[q].gpu] = "rented"
                    /\ \A q \in SimpleRequests :
                         handler'[q].at \in {"wallet", "insert"} =>
                           gpuStatus'[handler'[q].gpu] = "available"
                    /\ \A u \in DOMAIN purse' :
                         /\ purse'[u].available >= 0
                         /\ \A q \in SimpleRequests :
                              /\ handler'[q].at \in {"insert", "rent", "lock"}
                              /\ handler'[q].user = u
                              => handler'[q].escrow <= purse'[u].available
  BY Zenon DEF Alone
<1>0. ~overlapped /\ ~unwritten
  OBVIOUS
<1>1. \A q \in SimpleRequests \ {r} : handler'[q] = handler[q]
  BY DEF OthersKept
<1>2. \A p, q \in Renting' : p = q
  <2>1. \A q \in Renting' : q # r => q \in Renting
    BY <1>1 DEF Renting
  <2>2. r \in Renting' => Renting \subseteq {r}
    BY DEF Renting, RentalStatements
  <2>3. \A p, q \in Renting : p = q
    BY <1>0 DEF SimpleInv, Alone
  <2> QED  BY <2>1, <2>2, <2>3
<1>3. \A q \in rentals : q \in SimpleRequests \ {r}
  BY DEF SimpleInv, HandlersSound
<1>4. /\ \A p, q \in (rentals \ Cut)' : handler'[p].gpu = handler'[q].gpu => p = q
      /\ \A q \in (rentals \ Cut)' :
           handler'[q].at # "rent" => gpuStatus'[handler'[q].gpu] = "rented"
  BY <1>0, <1>1, <1>3 DEF SimpleInv, Alone, Cut
<1>5. ASSUME NEW q \in SimpleRequests, handler'[q].at \in {"wallet", "insert"}
      PROVE  gpuStatus'[handler'[q].gpu] = "available"
  BY <1>0, <1>1, <1>5 DEF SimpleInv, Alone
<1>6. ASSUME NEW u \in DOMAIN purse'
      PROVE  /\ purse'[u].available >= 0
             /\ \A q \in SimpleRequests :
                  handler'[q].at \in {"insert", "rent", "lock"} /\ handler'[q].user = u =>
                    handler'[q].escrow <= purse'[u].available
  BY <1>0, <1>1 DEF SimpleInv, Alone
<1> QED  BY <1>2, <1>4, <1>5, <1>6

\* The request goes on to a statement and keeps its values.
LEMMA ThenFacts ==
  ASSUME HandlersSound, NEW r \in SimpleRequests,
         NEW next \in Statements \cup {"done"}, Then(r, next)
  PROVE  /\ handler' \in [SimpleRequests -> Handler] /\ OthersKept(r)
         /\ handler'[r].at = next
         /\ handler'[r].user = handler[r].user /\ handler'[r].gpu = handler[r].gpu
         /\ handler'[r].escrow = handler[r].escrow /\ handler'[r].read = handler[r].read
<1>1. handler \in [SimpleRequests -> Handler] /\ handler[r] \in Handler
  BY DEF HandlersSound
<1>2. handler' = [handler EXCEPT ![r] = [handler[r] EXCEPT !.at = next]]
  BY <1>1 DEF Then
<1>3. [handler[r] EXCEPT !.at = next] \in Handler
  BY <1>1 DEF Handler
<1> QED  BY <1>1, <1>2, <1>3 DEF OthersKept, Handler

\* createWallet, before its INSERT, and the read of the GPU's status.
LEMMA ReadsKeep ==
  ASSUME SimpleInv, NEW r \in SimpleRequests,
         StartWallet(r) \/ CountWallets(r) \/ ReadGPU(r)
  PROVE  SimpleInv'
<1>1. /\ handler' \in [SimpleRequests -> Handler] /\ OthersKept(r)
      /\ handler'[r].at \in {"count", "create", "wallet", "done"}
      /\ handler'[r].at \in {"count", "create"} => handler'[r].user \in SimpleUsers
      /\ handler'[r].at = "wallet" =>
           /\ r \in Renting /\ handler'[r].user \in SimpleUsers /\ handler'[r].gpu \in SimpleGPUs
           /\ gpuStatus[handler'[r].gpu] = "available"
      /\ handler[r].at \in {"new", "count", "gpu"}
  <2>1. CASE StartWallet(r)
    <3>1. PICK u \in SimpleUsers : handler' = [handler EXCEPT ![r].at = "count", ![r].user = u]
      BY <2>1, Zenon DEF StartWallet
    <3>2. handler \in [SimpleRequests -> Handler] /\ handler[r] \in Handler
      BY DEF SimpleInv, HandlersSound
    <3>3. handler' = [handler EXCEPT ![r] = [handler[r] EXCEPT !.at = "count", !.user = u]]
      BY <3>1, <3>2
    <3>4. [handler[r] EXCEPT !.at = "count", !.user = u] \in Handler
      BY <3>2 DEF Handler, Statements
    <3>5. handler[r].at = "new"
      BY <2>1 DEF StartWallet, Runs
    <3> QED  BY <3>2, <3>3, <3>4, <3>5 DEF OthersKept, Handler
  <2>2. CASE CountWallets(r)
    <3>1. \E next \in {"create", "done"} : Then(r, next)
      BY <2>2 DEF CountWallets
    <3>2. handler[r].at = "count" /\ handler[r].user \in SimpleUsers
      BY <2>2 DEF CountWallets, Runs, SimpleInv, HandlersSound
    <3> QED  BY <3>1, <3>2, ThenFacts DEF SimpleInv, Statements
  <2>3. CASE ReadGPU(r)
    <3>1. \/ gpuStatus[handler[r].gpu] = "available" /\ Then(r, "wallet")
          \/ Then(r, "done")
      BY <2>3 DEF ReadGPU
    <3>2. handler[r].at = "gpu" /\ r \in Renting
      BY <2>3 DEF ReadGPU, Runs, Renting
    <3>3. handler[r].user \in SimpleUsers /\ handler[r].gpu \in SimpleGPUs
      BY <3>2 DEF SimpleInv, HandlersSound
    <3> QED  BY <3>1, <3>2, <3>3, ThenFacts DEF SimpleInv, Statements
  <2> QED  BY <2>1, <2>2, <2>3
<1>2. /\ UNCHANGED <<gpuStatus, purse, rentals, overlapped, unwritten>>
      /\ r \notin rentals
  <2>1. UNCHANGED <<gpuStatus, purse, rentals, overlapped, unwritten>>
    BY DEF StartWallet, CountWallets, ReadGPU
  <2> QED  BY <1>1, <2>1 DEF SimpleInv, HandlersSound
<1>3. HandlersSound'
  BY <1>1, <1>2, SoundKept DEF SimpleInv, HandlersSound, RentalStatements
<1>4. Backed'
  BY <1>1, <1>2, <1>3, BackedKept DEF SimpleInv
<1>5. r \in Renting /\ ~overlapped' /\ ~unwritten' => Renting \subseteq {r}
  BY <1>2 DEF SimpleInv, Alone
<1>6. Alone'
  BY <1>1, <1>2, <1>5, AloneKept DEF RentalStatements
<1> QED  BY <1>3, <1>4, <1>6 DEF SimpleInv

\* createRental, from its arguments ...
LEMMA StartRentalKeeps ==
  ASSUME SimpleInv, NEW r \in SimpleRequests, StartRental(r)
  PROVE  SimpleInv'
<1>1. PICK u \in SimpleUsers, g \in SimpleGPUs, e \in Escrows :
        handler' = [handler EXCEPT ![r] =
          [at |-> "gpu", user |-> u, gpu |-> g, escrow |-> e, read |-> 0]]
  BY DEF StartRental
<1>2. /\ handler' \in [SimpleRequests -> Handler] /\ OthersKept(r)
      /\ handler'[r].at = "gpu" /\ handler'[r].user = u /\ handler'[r].gpu = g
  <2>1. [at |-> "gpu", user |-> u, gpu |-> g, escrow |-> e, read |-> 0] \in Handler
    <3>1. e \in Int /\ "gpu" \in Statements \cup {"new", "done", "dead"}
      BY SimpleAssumption DEF Statements
    <3>2. u \in SimpleUsers \cup {""} /\ g \in SimpleGPUs \cup {""}
      BY Zenon
    <3>3. 0 \in Int
      OBVIOUS
    <3> QED  BY <3>1, <3>2, <3>3, Zenon DEF Handler
  <2>2. handler \in [SimpleRequests -> Handler]
    BY DEF SimpleInv, HandlersSound
  <2> QED  BY <1>1, <2>1, <2>2 DEF OthersKept
<1>3. /\ UNCHANGED <<gpuStatus, purse, rentals, unwritten>>
      /\ overlapped' = (overlapped \/ Renting # {}) /\ handler[r].at = "new"
  BY DEF StartRental, Runs
<1>4. r \notin rentals
  BY <1>3 DEF SimpleInv, HandlersSound
<1>5. HandlersSound'
  BY <1>2, <1>3, <1>4, SoundKept DEF SimpleInv, HandlersSound
<1>6. Backed'
  BY <1>2, <1>3, <1>4, <1>5, BackedKept DEF SimpleInv
<1>7. Alone'
  BY <1>2, <1>3, <1>4, AloneKept
<1> QED  BY <1>5, <1>6, <1>7 DEF SimpleInv

\* ... over the read of the balance, which bounds what the request may lock,
\* ...
LEMMA ReadWalletKeeps ==
  ASSUME SimpleInv, NEW r \in SimpleRequests, ReadWallet(r)
  PROVE  SimpleInv'
<1> DEFINE user == handler[r].user
           Goes == /\ handler' \in [SimpleRequests -> Handler] /\ OthersKept(r)
                   /\ handler'[r].user = user /\ handler'[r].gpu = handler[r].gpu
                   /\ handler'[r].escrow = handler[r].escrow
                   /\ \/ handler'[r].at = "done"
                      \/ /\ handler'[r].at = "insert"
                         /\ \/ /\ user \in DOMAIN purse
                               /\ handler[r].escrow <= purse[user].available
                            \/ handler[r].escrow <= 0
           Pass(read) == handler' = [handler EXCEPT ![r].read = read,
                           ![r].at = IF read < handler[r].escrow THEN "done" ELSE "insert"]
<1>1. /\ UNCHANGED <<gpuStatus, purse, rentals, overlapped, unwritten>>
      /\ handler[r].at = "wallet" /\ r \in Renting /\ r \notin rentals
      /\ user \in SimpleUsers /\ handler[r].gpu \in SimpleGPUs /\ handler[r].escrow \in Int
  <2>1. handler[r].at = "wallet" /\ UNCHANGED <<gpuStatus, purse, rentals, overlapped, unwritten>>
    BY DEF ReadWallet, Runs
  <2>2. r \in Renting /\ r \notin rentals
    BY <2>1 DEF Renting, SimpleInv, HandlersSound
  <2> QED  BY <2>1, <2>2 DEF SimpleInv, HandlersSound, Handler
<1>2. Goes
  <2>1. CASE Then(r, "done")
    BY <2>1, ThenFacts DEF SimpleInv
  <2>2. ASSUME NEW read \in Int, Pass(read),
               (user \in DOMAIN purse /\ read = purse[user].available) \/ read = 0
        PROVE  Goes
    <3> DEFINE next == IF read < handler[r].escrow THEN "done" ELSE "insert"
    <3>1. handler \in [SimpleRequests -> Handler] /\ handler[r] \in Handler
      BY DEF SimpleInv, HandlersSound
    <3>2. handler' = [handler EXCEPT ![r] = [handler[r] EXCEPT !.read = read, !.at = next]]
      BY <2>2, <3>1
    <3>3. next \in Statements \cup {"done"}
      BY DEF Statements
    <3>4. next = "insert" => handler[r].escrow <= read
      BY <1>1
    <3> HIDE DEF next
    <3>5. [handler[r] EXCEPT !.read = read, !.at = next] \in Handler
      BY <3>1, <3>3 DEF Handler
    <3>6. /\ handler' \in [SimpleRequests -> Handler] /\ OthersKept(r)
          /\ handler'[r].user = user /\ handler'[r].gpu = handler[r].gpu
          /\ handler'[r].escrow = handler[r].escrow /\ handler'[r].at = next
      BY <3>1, <3>2, <3>5 DEF OthersKept, Handler
    <3>7. next = "done" \/ next = "insert"
      BY DEF next
    <3> QED  BY <1>1, <2>2, <3>4, <3>6, <3>7
  <2>3. \/ Then(r, "done") \/ Pass(0)
        \/ user \in DOMAIN purse /\ Pass(purse[user].available)
    BY DEF ReadWallet, WalletBalance
  <2>4. user \in DOMAIN purse => purse[user].available \in Int
    BY DEF SimpleInv, Backed
  <2>5. 0 \in Int
    OBVIOUS
  <2> HIDE DEF Goes, Pass
  <2> QED  BY <2>1, <2>2, <2>3, <2>4, <2>5
<1>3. HandlersSound'
  BY <1>1, <1>2, SoundKept DEF SimpleInv, HandlersSound, RentalStatements
<1>4. Backed'
  BY <1>1, <1>2, <1>3, BackedKept DEF SimpleInv
<1>5. ~overlapped /\ ~unwritten =>
        /\ Renting \subseteq {r} /\ gpuStatus[handler[r].gpu] = "available"
        /\ \A u \in DOMAIN purse : purse[u].available >= 0
  BY <1>1 DEF SimpleInv, Alone
<1>6. ASSUME NEW u \in DOMAIN purse, ~overlapped, ~unwritten,
             handler'[r].at = "insert", handler'[r].user = u
      PROVE  handler'[r].escrow <= purse[u].available
  <2>1. purse[u].available \in Int /\ purse[u].available >= 0
    BY <1>5, <1>6 DEF SimpleInv, Backed
  <2>2. handler[r].escrow <= purse[u].available
    BY <1>1, <1>2, <1>6, <2>1
  <2> QED  BY <1>2, <2>2
<1>7. Alone'
  BY <1>1, <1>2, <1>5, <1>6, AloneKept
<1> QED  BY <1>3, <1>4, <1>7 DEF SimpleInv

\* createWallet's INSERT: a first wallet, whose user has settled nothing so
\* far.
LEMMA InsertWalletKeeps ==
  ASSUME SimpleInv, NEW r \in SimpleRequests, InsertWallet(r)
  PROVE  SimpleInv'
<1> DEFINE user == handler[r].user
<1>1. /\ handler[r].at = "create" /\ Then(r, "done")
      /\ UNCHANGED <<gpuStatus, rentals, overlapped, unwritten>>
      /\ \/ UNCHANGED purse
         \/ /\ DOMAIN purse = {}
            /\ purse' = [u \in {user} |-> [available |-> InitialBalance, locked |-> 0]]
  BY DEF InsertWallet, Runs
<1>2. r \notin rentals /\ user \in SimpleUsers
  BY <1>1 DEF SimpleInv, HandlersSound
<1>3. /\ handler' \in [SimpleRequests -> Handler] /\ OthersKept(r) /\ handler'[r].at = "done"
      /\ \A q \in SimpleRequests : /\ handler'[q].user = handler[q].user
                                   /\ handler'[q].gpu = handler[q].gpu
                                   /\ handler'[q].escrow = handler[q].escrow
                                   /\ handler'[q].at \in {handler[q].at, "done"}
  BY <1>1, ThenFacts DEF SimpleInv, OthersKept
<1>4. HandlersSound'
  BY <1>1, <1>2, <1>3, SoundKept DEF SimpleInv, HandlersSound, RentalStatements
<1>5. CASE UNCHANGED purse
  <2>1. Backed'
    BY <1>1, <1>2, <1>3, <1>4, <1>5, BackedKept DEF SimpleInv
  <2>2. Alone'
    BY <1>1, <1>2, <1>3, <1>5, AloneKept DEF RentalStatements
  <2> QED  BY <1>4, <2>1, <2>2 DEF SimpleInv
<1>6. CASE /\ DOMAIN purse = {}
           /\ purse' = [u \in {user} |-> [available |-> InitialBalance, locked |-> 0]]
  <2>1. /\ DOMAIN purse' = {user} /\ InitialBalance \in Int
        /\ purse'[user].available = InitialBalance /\ purse'[user].locked = 0
    BY <1>6, SimpleAssumption
  <2>2. \A q \in SimpleRequests :
          handler'[q].at \in {"insert", "rent", "lock"} => handler'[q].escrow <= 0
    BY <1>1, <1>3, <1>6 DEF SimpleInv, Backed
  <2>3. ASSUME NEW u, ~unwritten'
        PROVE  Settled(u)' = {} /\ Total(Escrow', Settled(u)') = 0
    <3> DEFINE S == Settled(u)'
               e == Escrow'
    <3>1. Settled(u) = {}
      BY <1>1, <1>6, <2>3 DEF SimpleInv, Backed
    <3>2. S = {}
      BY <1>1, <1>2, <1>3, <3>1 DEF SimpleInv, HandlersSound, Settled, ListRentals, OthersKept
    <3> HIDE DEF S, e
    <3>3. Total(e, S) = 0
      BY <3>2, FS_EmptySet, TotalZero
    <3> QED  BY <3>2, <3>3 DEF S, e
  <2>4. Backed'
    <3>1. /\ purse'[user].available \in Int /\ purse'[user].locked \in Int
          /\ purse'[user].available + purse'[user].locked = InitialBalance
      BY <2>1
    <3>2. \A u \in DOMAIN purse' :
            /\ purse'[u].available \in Int /\ purse'[u].locked \in Int
            /\ purse'[u].available + purse'[u].locked = InitialBalance
            /\ ~unwritten' => purse'[u].locked = Total(Escrow', Settled(u)')
      BY <2>1, <2>3, <3>1
    <3>3. DOMAIN purse' \subseteq SimpleUsers
      BY <1>2, <2>1
    <3> QED  BY <2>2, <2>3, <3>2, <3>3 DEF Backed
  <2>5. Alone'
    <3> SUFFICES ASSUME ~overlapped', ~unwritten' PROVE Alone'
      BY Zenon DEF Alone
    <3>1. ~overlapped /\ ~unwritten
      BY <1>1
    <3>2. \A p, q \in Renting' : p = q
      <4>1. Renting' \subseteq Renting
        BY <1>3 DEF Renting
      <4> QED  BY <3>1, <4>1 DEF SimpleInv, Alone
    <3>3. \A q \in rentals : q \in SimpleRequests /\ handler'[q].at = handler[q].at
      BY <1>2, <1>3 DEF OthersKept, SimpleInv, HandlersSound
    <3>4. /\ \A p, q \in (rentals \ Cut)' : handler'[p].gpu = handler'[q].gpu => p = q
          /\ \A q \in (rentals \ Cut)' :
               handler'[q].at # "rent" => gpuStatus'[handler'[q].gpu] = "rented"
      BY <1>1, <1>3, <3>1, <3>3 DEF SimpleInv, Alone, Cut
    <3>5. \A q \in SimpleRequests :
            handler'[q].at \in {"wallet", "insert"} => gpuStatus'[handler'[q].gpu] = "available"
      BY <1>1, <1>3, <3>1 DEF SimpleInv, Alone
    <3>6. \A u \in DOMAIN purse' :
            /\ purse'[u].available >= 0
            /\ \A q \in SimpleRequests :
                 handler'[q].at \in {"insert", "rent", "lock"} /\ handler'[q].user = u =>
                   handler'[q].escrow <= purse'[u].available
      <4>1. \A q \in SimpleRequests : handler'[q].escrow \in Int
        BY <1>3 DEF Handler
      <4>2. InitialBalance >= 0 /\ InitialBalance \in Int
        BY SimpleAssumption
      <4>3. ASSUME NEW q \in SimpleRequests, handler'[q].at \in {"insert", "rent", "lock"}
            PROVE  handler'[q].escrow <= InitialBalance
        <5>1. handler'[q].escrow <= 0
          BY <2>2, <4>3
        <5> QED  BY <4>1, <4>2, <5>1
      <4>4. \A u \in DOMAIN purse' : purse'[u].available = InitialBalance
        BY <2>1
      <4> QED  BY <4>2, <4>3, <4>4
    <3> QED  BY <3>2, <3>4, <3>5, <3>6 DEF Alone
  <2> QED  BY <1>4, <2>4, <2>5 DEF SimpleInv
<1> QED  BY <1>1, <1>5, <1>6

\* ... the INSERT of its row, ...
LEMMA InsertRentalKeeps ==
  ASSUME SimpleInv, NEW r \in SimpleRequests, InsertRental(r)
  PROVE  SimpleInv'
<1>1. /\ handler[r].at = "insert" /\ UNCHANGED <<gpuStatus, purse, overlapped, unwritten>>
      /\ \/ rentals' = rentals \cup {r} /\ Then(r, "rent")
         \/ rentals' = rentals /\ Then(r, "done")
  BY DEF InsertRental, Runs
<1>2. /\ r \notin rentals /\ r \in Renting
      /\ handler[r].user \in SimpleUsers /\ handler[r].gpu \in SimpleGPUs
  <2>1. r \notin rentals /\ r \in Renting
    BY <1>1 DEF Renting, SimpleInv, HandlersSound
  <2> QED  BY <2>1 DEF SimpleInv, HandlersSound
<1>3. /\ handler' \in [SimpleRequests -> Handler] /\ OthersKept(r)
      /\ \/ rentals' = rentals \cup {r} /\ handler'[r].at = "rent"
         \/ rentals' = rentals /\ handler'[r].at = "done"
      /\ \A q \in SimpleRequests : /\ handler'[q].user = handler[q].user
                                   /\ handler'[q].gpu = handler[q].gpu
                                   /\ handler'[q].escrow = handler[q].escrow
  <2>1. "rent" \in Statements /\ HandlersSound
    BY DEF Statements, SimpleInv
  <2> QED  BY <1>1, <2>1, ThenFacts DEF OthersKept
<1>4. HandlersSound'
  BY <1>1, <1>2, <1>3, SoundKept DEF SimpleInv, HandlersSound, RentalStatements
<1>5. handler[r].user \notin DOMAIN purse => handler[r].escrow <= 0
  BY <1>1 DEF SimpleInv, Backed
<1>6. Backed'
  BY <1>1, <1>2, <1>3, <1>4, <1>5, BackedKept DEF SimpleInv
<1>7. CASE rentals' = rentals
  BY <1>1, <1>2, <1>3, <1>4, <1>6, <1>7, AloneKept DEF RentalStatements, SimpleInv
<1>8. CASE rentals' = rentals \cup {r} /\ handler'[r].at = "rent"
  <2> SUFFICES ASSUME ~overlapped', ~unwritten' PROVE Alone'
    BY <1>4, <1>6, Zenon DEF Alone, SimpleInv
  <2>1. ~overlapped /\ ~unwritten
    BY <1>1
  <2>2. /\ \A p, q \in Renting : p = q
        /\ gpuStatus[handler[r].gpu] = "available"
    BY <1>1, <2>1 DEF SimpleInv, Alone
  <2>3. ASSUME NEW q \in rentals \ Cut
        PROVE  /\ q \in SimpleRequests /\ q # r /\ handler'[q] = handler[q]
               /\ gpuStatus[handler[q].gpu] = "rented"
    <3>1. q \in SimpleRequests /\ q # r /\ handler'[q] = handler[q]
      BY <1>2, <1>3 DEF SimpleInv, HandlersSound, OthersKept
    <3>2. handler[q].at # "rent"
      BY <1>2, <2>2, <3>1 DEF Renting
    <3> QED  BY <2>1, <3>1, <3>2 DEF SimpleInv, Alone
  <2>4. \A p, q \in Renting' : p = q
    <3>1. Renting' \subseteq Renting
      BY <1>2, <1>3 DEF Renting, OthersKept
    <3> QED  BY <2>2, <3>1
  <2>9. (rentals \ Cut)' \subseteq (rentals \ Cut) \cup {r}
    BY <1>2, <1>3, <1>8 DEF Cut, OthersKept, SimpleInv, HandlersSound
  <2>5. \A p, q \in (rentals \ Cut)' : handler'[p].gpu = handler'[q].gpu => p = q
    <3>1. \A q \in rentals \ Cut : handler'[q].gpu # handler'[r].gpu
      BY <1>3, <2>2, <2>3
    <3>2. \A p, q \in rentals \ Cut : handler'[p].gpu = handler'[q].gpu => p = q
      BY <2>1, <2>3 DEF SimpleInv, Alone
    <3> QED  BY <2>9, <3>1, <3>2
  <2>6. \A q \in (rentals \ Cut)' :
          handler'[q].at # "rent" => gpuStatus'[handler'[q].gpu] = "rented"
    BY <1>1, <1>8, <2>3, <2>9
  <2>7. \A q \in SimpleRequests :
          handler'[q].at \in {"wallet", "insert"} => gpuStatus'[handler'[q].gpu] = "available"
    BY <1>1, <1>3, <1>8, <2>1 DEF SimpleInv, Alone, OthersKept
  <2>8. \A u \in DOMAIN purse' :
          /\ purse'[u].available >= 0
          /\ \A q \in SimpleRequests :
               handler'[q].at \in {"insert", "rent", "lock"} /\ handler'[q].user = u =>
                 handler'[q].escrow <= purse'[u].available
    BY <1>1, <1>3, <1>8, <2>1 DEF SimpleInv, Alone, OthersKept
  <2> QED  BY <2>4, <2>5, <2>6, <2>7, <2>8 DEF Alone
<1> QED  BY <1>3, <1>4, <1>6, <1>7, <1>8 DEF SimpleInv

\* ... the UPDATE of the GPU ...
LEMMA UpdateGPUKeeps ==
  ASSUME SimpleInv, NEW r \in SimpleRequests, UpdateGPU(r)
  PROVE  SimpleInv'
<1>1. /\ handler[r].at = "rent" /\ Then(r, "lock") /\ UNCHANGED <<purse, rentals, overlapped>>
      /\ \/ /\ gpuStatus' = [gpuStatus EXCEPT ![handler[r].gpu] = "rented"]
            /\ UNCHANGED unwritten
         \/ unwritten' = TRUE /\ UNCHANGED gpuStatus
  BY DEF UpdateGPU, Runs
<1>2. /\ r \in rentals /\ r \in Renting
      /\ handler[r].user \in SimpleUsers /\ handler[r].gpu \in SimpleGPUs
  <2>1. r \in rentals /\ r \in Renting
    BY <1>1 DEF Renting, SimpleInv, HandlersSound
  <2> QED  BY <2>1 DEF SimpleInv, HandlersSound
<1>3. /\ handler' \in [SimpleRequests -> Handler] /\ OthersKept(r) /\ handler'[r].at = "lock"
      /\ \A q \in SimpleRequests : /\ handler'[q].user = handler[q].user
                                   /\ handler'[q].gpu = handler[q].gpu
                                   /\ handler'[q].escrow = handler[q].escrow
  <2>1. "lock" \in Statements /\ HandlersSound
    BY DEF Statements, SimpleInv
  <2> QED  BY <1>1, <2>1, ThenFacts DEF OthersKept
<1>4. gpuStatus' \in [SimpleGPUs -> {"available", "rented"}]
  BY <1>1 DEF SimpleInv, HandlersSound
<1>5. HandlersSound'
  BY <1>1, <1>2, <1>3, <1>4, SoundKept DEF SimpleInv, RentalStatements
<1>6. handler[r].user \notin DOMAIN purse => handler[r].escrow <= 0
  BY <1>1 DEF SimpleInv, Backed
<1>7. Backed'
  BY <1>1, <1>2, <1>3, <1>5, <1>6, BackedKept DEF SimpleInv
<1>8. Alone'
  <2> SUFFICES ASSUME ~overlapped', ~unwritten' PROVE Alone'
    BY Zenon DEF Alone
  <2>1. /\ ~overlapped /\ ~unwritten
        /\ gpuStatus' = [gpuStatus EXCEPT ![handler[r].gpu] = "rented"]
    BY <1>1
  <2>2. \A p, q \in Renting : p = q
    BY <2>1 DEF SimpleInv, Alone
  <2>3. \A g \in SimpleGPUs : gpuStatus[g] = "rented" => gpuStatus'[g] = "rented"
    BY <2>1 DEF SimpleInv, HandlersSound
  <2>4. gpuStatus'[handler[r].gpu] = "rented"
    BY <1>2, <2>1 DEF SimpleInv, HandlersSound
  <2>5. \A p, q \in Renting' : p = q
    <3>1. Renting' \subseteq Renting
      BY <1>2, <1>3 DEF Renting, OthersKept
    <3> QED  BY <2>2, <3>1
  <2>10. (rentals \ Cut)' \subseteq rentals \ Cut
    BY <1>1, <1>3 DEF Cut, OthersKept, SimpleInv, HandlersSound
  <2>6. \A p, q \in (rentals \ Cut)' : handler'[p].gpu = handler'[q].gpu => p = q
    BY <1>3, <2>1, <2>10 DEF SimpleInv, HandlersSound, Alone
  <2>7. ASSUME NEW q \in (rentals \ Cut)'
        PROVE  gpuStatus'[handler'[q].gpu] = "rented"
    <3>1. CASE q = r
      BY <1>3, <2>4, <3>1
    <3>2. CASE q # r
      <4>1. q \in SimpleRequests /\ q \in rentals \ Cut
        BY <2>7, <2>10 DEF SimpleInv, HandlersSound
      <4>2. handler[q].at # "rent"
        BY <1>2, <2>2, <3>2, <4>1 DEF Renting
      <4>3. gpuStatus[handler[q].gpu] = "rented"
        BY <2>1, <4>1, <4>2 DEF SimpleInv, Alone
      <4>4. handler'[q].gpu = handler[q].gpu
        BY <1>3, <4>1
      <4>5. \A g : gpuStatus[g] = "rented" => gpuStatus'[g] = "rented"
        BY <2>1 DEF SimpleInv, HandlersSound
      <4> QED  BY <4>3, <4>4, <4>5
    <3> QED  BY <3>1, <3>2
  <2>8. \A q \in SimpleRequests : handler'[q].at \notin {"wallet", "insert"}
    <3>1. \A q \in SimpleRequests \ {r} : handler[q].at \notin {"wallet", "insert"}
      BY <1>2, <2>2 DEF Renting
    <3> QED  BY <1>3, <3>1 DEF OthersKept
  <2>9. \A u \in DOMAIN purse' :
          /\ purse'[u].available >= 0
          /\ \A q \in SimpleRequests :
               handler'[q].at \in {"insert", "rent", "lock"} /\ handler'[q].user = u =>
                 handler'[q].escrow <= purse'[u].available
    BY <1>1, <1>3, <2>1 DEF SimpleInv, Alone, OthersKept
  <2> QED  BY <2>5, <2>6, <2>7, <2>8, <2>9 DEF Alone
<1> QED  BY <1>5, <1>7, <1>8 DEF SimpleInv

\* ... to the UPDATE of the wallet, which settles the request.
LEMMA LockFundsKeeps ==
  ASSUME SimpleInv, NEW r \in SimpleRequests, LockFunds(r)
  PROVE  SimpleInv'
<1> DEFINE user == handler[r].user
           e == handler[r].escrow
           moved == [v \in DOMAIN purse |-> IF v = user
                       THEN [available |-> purse[v].available - e,
                             locked |-> purse[v].locked + e] ELSE purse[v]]
<1>1. /\ handler[r].at = "lock" /\ Then(r, "done") /\ UNCHANGED <<gpuStatus, rentals, overlapped>>
      /\ \/ purse' = moved
         \/ unwritten' = TRUE /\ UNCHANGED purse
      /\ ~unwritten' => ~unwritten /\ user \in DOMAIN purse
  BY DEF LockFunds, Runs
<1>2. r \in rentals /\ r \in Renting /\ user \in SimpleUsers /\ e \in Int
  <2>1. r \in rentals /\ r \in Renting
    BY <1>1 DEF Renting, SimpleInv, HandlersSound
  <2> QED  BY <2>1 DEF SimpleInv, HandlersSound, Handler
<1>3. /\ handler' \in [SimpleRequests -> Handler] /\ OthersKept(r) /\ handler'[r].at = "done"
      /\ \A q \in SimpleRequests : /\ handler'[q].user = handler[q].user
                                   /\ handler'[q].gpu = handler[q].gpu
                                   /\ handler'[q].escrow = handler[q].escrow
  BY <1>1, ThenFacts DEF SimpleInv, OthersKept
<1>4. HandlersSound'
  BY <1>1, <1>2, <1>3, SoundKept DEF SimpleInv, HandlersSound, RentalStatements
<1>5. /\ DOMAIN purse' = DOMAIN purse
      /\ \A v \in DOMAIN purse :
           /\ purse[v].available \in Int /\ purse[v].locked \in Int
           /\ purse[v].available + purse[v].locked = InitialBalance
      /\ \A v \in DOMAIN purse : v # user => purse'[v] = purse[v]
  BY <1>1 DEF SimpleInv, Backed
<1>6. ~unwritten' /\ user \in DOMAIN purse =>
        /\ purse'[user].available = purse[user].available - e
        /\ purse'[user].locked = purse[user].locked + e
  BY <1>1
<1>7. unwritten' => \A v \in DOMAIN purse :
        \/ purse'[v] = purse[v]
        \/ /\ purse'[v].available = purse[v].available - e
           /\ purse'[v].locked = purse[v].locked + e
  <2>1. CASE UNCHANGED purse
    BY <2>1
  <2>2. CASE purse' = moved
    <3> SUFFICES ASSUME NEW v \in DOMAIN purse
                 PROVE  \/ purse'[v] = purse[v]
                        \/ /\ purse'[v].available = purse[v].available - e
                           /\ purse'[v].locked = purse[v].locked + e
      OBVIOUS
    <3>1. CASE v = user
      BY <2>2, <3>1
    <3>2. CASE v # user
      BY <2>2, <3>2
    <3> QED  BY <3>1, <3>2
  <2> QED  BY <1>1, <2>1, <2>2
<1> HIDE DEF moved
<1>8. Escrow' = Escrow
  BY <1>3 DEF Escrow
<1>9. Backed'
  <2>1. ASSUME NEW v \in DOMAIN purse, v # user
        PROVE  Total(Escrow', Settled(v)') = Total(Escrow, Settled(v))
    <3>1. r \notin Settled(v) /\ r \notin Settled(v)'
      BY <1>3, <2>1 DEF Settled, ListRentals
    <3> QED  BY <1>1, <1>3, <1>4, <3>1, SettledKept DEF SimpleInv
  <2>2. ASSUME NEW v, v = user
        PROVE  Total(Escrow', Settled(v)') = Escrow[r] + Total(Escrow, Settled(v))
    <3> DEFINE S == Settled(v)
    <3>1. IsFiniteSet(S) /\ S \subseteq SimpleRequests /\ r \notin S
      BY <1>1, FS_Subset DEF SimpleInv, HandlersSound, Settled, ListRentals
    <3>2. Settled(v)' = S \cup {r}
      BY <1>1, <1>2, <1>3, <2>2 DEF SimpleInv, HandlersSound, Settled, ListRentals, OthersKept
    <3>3. \A x \in S \cup {r} : Escrow[x] \in Int
      BY <3>1 DEF Escrow, SimpleInv, HandlersSound, Handler
    <3> HIDE DEF S
    <3> DEFINE d == Escrow
    <3>4. \A x \in S \cup {r} : d[x] \in Int
      BY <3>3
    <3> HIDE DEF d
    <3>5. Total(d, S \cup {r}) = d[r] + Total(d, S)
      BY <3>1, <3>4, TotalAdd
    <3> QED  BY <1>8, <3>2, <3>5 DEF S, d
  <2>3. Escrow[r] = e
    BY DEF Escrow
  <2>4. \A v \in DOMAIN purse' :
          /\ purse'[v].available \in Int /\ purse'[v].locked \in Int
          /\ purse'[v].available + purse'[v].locked = InitialBalance
    <3> SUFFICES ASSUME NEW v \in DOMAIN purse
                 PROVE  /\ purse'[v].available \in Int /\ purse'[v].locked \in Int
                        /\ purse'[v].available + purse'[v].locked = InitialBalance
      BY <1>5
    <3>1. /\ purse[v].available \in Int /\ purse[v].locked \in Int
          /\ purse[v].available + purse[v].locked = InitialBalance
      BY <1>5
    <3>2. \/ purse'[v] = purse[v]
          \/ /\ purse'[v].available = purse[v].available - e
             /\ purse'[v].locked = purse[v].locked + e
      BY <1>5, <1>6, <1>7
    <3>3. e \in Int /\ InitialBalance \in Int
      BY <1>2, SimpleAssumption
    <3> HIDE DEF e
    <3> QED  BY <3>1, <3>2, <3>3
  <2>5. ASSUME NEW v \in DOMAIN purse', ~unwritten'
        PROVE  purse'[v].locked = Total(Escrow', Settled(v)')
    <3>1. ~unwritten /\ v \in DOMAIN purse
      BY <1>1, <1>5, <2>5
    <3>2. purse[v].locked = Total(Escrow, Settled(v))
      BY <3>1 DEF SimpleInv, Backed
    <3>3. CASE v # user
      BY <1>5, <2>1, <3>1, <3>2, <3>3
    <3>4. CASE v = user
      <4> DEFINE before == Total(Escrow, Settled(v))
                 after == Total(Escrow', Settled(v)')
      <4>1. after = e + before
        BY <2>2, <2>3, <3>4
      <4>2. purse[v].locked = before
        BY <3>2
      <4> HIDE DEF before, after, user, e
      <4>3. purse'[v].locked = purse[v].locked + e /\ purse[v].locked \in Int /\ e \in Int
        BY <1>2, <1>5, <1>6, <2>5, <3>1, <3>4
      <4> QED  BY <4>1, <4>2, <4>3 DEF after
    <3> QED  BY <3>3, <3>4
  <2>6. \A q \in SimpleRequests :
          /\ handler'[q].user \notin DOMAIN purse'
          /\ handler'[q].at \in {"insert", "rent", "lock"}
          => handler'[q].escrow <= 0
    BY <1>1, <1>2, <1>3, <1>5 DEF SimpleInv, Backed, OthersKept
  <2>8. ASSUME NEW v, v \notin DOMAIN purse', ~unwritten'
        PROVE  Settled(v)' = {}
    <3>1. v # user /\ v \notin DOMAIN purse /\ ~unwritten
      BY <1>1, <1>5, <2>8
    <3>2. Settled(v) = {}
      BY <3>1 DEF SimpleInv, Backed
    <3> QED
      BY <1>1, <1>3, <3>1, <3>2 DEF SimpleInv, HandlersSound, Settled, ListRentals, OthersKept
  <2>7. DOMAIN purse' \subseteq SimpleUsers
    BY <1>5 DEF SimpleInv, Backed
  <2> QED  BY <2>4, <2>5, <2>6, <2>7, <2>8 DEF Backed
<1>10. Alone'
  <2> SUFFICES ASSUME ~overlapped', ~unwritten' PROVE Alone'
    BY Zenon DEF Alone
  <2>1. ~overlapped /\ ~unwritten
    BY <1>1
  <2>2. \A p, q \in Renting : p = q
    BY <2>1 DEF SimpleInv, Alone
  <2>3. \A q \in SimpleRequests : handler'[q].at \notin RentalStatements
    <3>1. \A q \in SimpleRequests \ {r} : handler[q].at \notin RentalStatements
      BY <1>2, <2>2 DEF Renting, RentalStatements
    <3>2. "done" \notin RentalStatements
      BY DEF RentalStatements
    <3> QED  BY <1>3, <3>1, <3>2 DEF OthersKept
  <2>4. \A q \in Renting' : FALSE
    BY <2>3 DEF Renting, RentalStatements
  <2>8. (rentals \ Cut)' \subseteq rentals \ Cut
    BY <1>1, <1>2, <1>3 DEF Cut, OthersKept, SimpleInv, HandlersSound
  <2>5. \A p, q \in (rentals \ Cut)' : handler'[p].gpu = handler'[q].gpu => p = q
    BY <1>3, <2>1, <2>8 DEF SimpleInv, HandlersSound, Alone
  <2>6. \A q \in (rentals \ Cut)' : gpuStatus'[handler'[q].gpu] = "rented"
    <3>1. \A q \in rentals \ Cut : q \in SimpleRequests /\ handler[q].at # "rent"
      BY <1>1, <1>2, <2>2 DEF SimpleInv, HandlersSound, Renting
    <3> QED  BY <1>1, <1>3, <2>1, <2>8, <3>1 DEF SimpleInv, Alone
  <2>7. \A u \in DOMAIN purse' : purse'[u].available >= 0
    <3>1. \A u \in DOMAIN purse : purse[u].available >= 0
      BY <2>1 DEF SimpleInv, Alone
    <3>2. user \in DOMAIN purse => e <= purse[user].available
      BY <1>1, <2>1 DEF SimpleInv, Alone
    <3> HIDE DEF user, e
    <3> QED  BY <1>2, <1>5, <1>6, <3>1, <3>2
  <2> QED  BY <2>3, <2>4, <2>5, <2>6, <2>7 DEF Alone, RentalStatements
<1> QED  BY <1>4, <1>9, <1>10 DEF SimpleInv

\* A crash settles nothing and frees nobody: it only cuts requests off.
LEMMA CrashKeeps ==
  ASSUME SimpleInv, Crash
  PROVE  SimpleInv'
<1>1. /\ handler' = [r \in SimpleRequests |->
           IF handler[r].at \in Statements THEN [handler[r] EXCEPT !.at = "dead"]
           ELSE handler[r]]
      /\ UNCHANGED <<gpuStatus, purse, rentals, overlapped, unwritten>>
  BY DEF Crash
<1>2. \A r \in SimpleRequests :
        /\ handler[r] \in Handler /\ handler'[r] \in Handler
        /\ handler'[r].user = handler[r].user /\ handler'[r].gpu = handler[r].gpu
        /\ handler'[r].escrow = handler[r].escrow
        /\ handler'[r].at \notin Statements
        /\ handler'[r].at = IF handler[r].at \in Statements THEN "dead" ELSE handler[r].at
  <2> SUFFICES ASSUME NEW r \in SimpleRequests
               PROVE  /\ handler[r] \in Handler /\ handler'[r] \in Handler
                      /\ handler'[r].user = handler[r].user /\ handler'[r].gpu = handler[r].gpu
                      /\ handler'[r].escrow = handler[r].escrow
                      /\ handler'[r].at \notin Statements
                      /\ handler'[r].at = IF handler[r].at \in Statements THEN "dead"
                                          ELSE handler[r].at
    OBVIOUS
  <2>1. handler[r] \in Handler
    BY DEF SimpleInv, HandlersSound
  <2>2. CASE handler[r].at \in Statements
    <3>1. handler'[r] = [handler[r] EXCEPT !.at = "dead"]
      BY <1>1, <2>2
    <3>2. "dead" \notin Statements
      BY DEF Statements
    <3> QED  BY <2>1, <2>2, <3>1, <3>2 DEF Handler
  <2>3. CASE handler[r].at \notin Statements
    BY <1>1, <2>1, <2>3
  <2> QED  BY <2>2, <2>3
<1>3. Renting' = {}
  BY <1>2 DEF Renting, Statements
<1>4. HandlersSound'
  <2>1. handler' \in [SimpleRequests -> Handler]
    BY <1>1, <1>2
  <2>2. \A r \in rentals : handler'[r].at \in {"done", "dead"}
    BY <1>2 DEF SimpleInv, HandlersSound, Statements
  <2>3. \A r \in SimpleRequests : handler'[r].at \notin {"rent", "lock", "count", "create"}
    BY <1>2 DEF Statements
  <2> QED  BY <1>1, <1>3, <2>1, <2>2, <2>3 DEF SimpleInv, HandlersSound
<1>5. Backed'
  <2>1. \A u : Settled(u)' = Settled(u)
    BY <1>1, <1>2 DEF Settled, ListRentals, Statements, SimpleInv, HandlersSound
  <2>2. Escrow' = Escrow
    BY <1>2 DEF Escrow
  <2>3. \A r \in SimpleRequests : handler'[r].at \notin {"insert", "rent", "lock"}
    BY <1>2 DEF Statements
  <2> QED  BY <1>1, <2>1, <2>2, <2>3 DEF SimpleInv, Backed
<1>6. Alone'
  <2>1. (rentals \ Cut)' \subseteq rentals \ Cut
    BY <1>1, <1>2 DEF Cut, Statements, SimpleInv, HandlersSound
  <2>2. \A r \in (rentals \ Cut)' : /\ r \in SimpleRequests
                                     /\ handler[r].at # "rent"
    BY <1>1, <1>2 DEF Cut, Statements, SimpleInv, HandlersSound
  <2>3. \A r \in SimpleRequests :
          handler'[r].at \notin {"wallet", "insert", "rent", "lock"}
    BY <1>2 DEF Statements
  <2> QED  BY <1>1, <1>2, <1>3, <2>1, <2>2, <2>3 DEF SimpleInv, Alone
<1> QED  BY <1>4, <1>5, <1>6 DEF SimpleInv

\* So each statement of a handler, and a crash, keeps the invariant.
LEMMA SimpleKeeps ==
  ASSUME SimpleInv, SimpleNext \/ UNCHANGED simpleVars
  PROVE  SimpleInv'
<1>1. CASE SimpleNext
  BY <1>1, ReadsKeep, StartRentalKeeps, ReadWalletKeeps, InsertWalletKeeps, InsertRentalKeeps,
     UpdateGPUKeeps, LockFundsKeeps, CrashKeeps DEF SimpleNext
<1>2. CASE UNCHANGED simpleVars
  <2>1. UNCHANGED <<gpuStatus, purse, rentals, handler, overlapped, unwritten>>
    BY <1>2 DEF simpleVars
  <2>2. HandlersSound'
    BY <2>1 DEF SimpleInv, HandlersSound, Renting
  <2>3. Backed'
    <3>1. Escrow' = Escrow
      BY <2>1 DEF Escrow
    <3>2. \A u : Settled(u)' = Settled(u)
      BY <2>1 DEF Settled, ListRentals
    <3> QED  BY <2>1, <3>1, <3>2 DEF SimpleInv, Backed
  <2>4. Alone'
    BY <2>1 DEF SimpleInv, Alone, Renting, Cut
  <2> QED  BY <2>2, <2>3, <2>4 DEF SimpleInv
<1> QED  BY <1>1, <1>2

\* When no rental of a user is being made, all that are listed and were not
\* cut off are settled.
LEMMA SimpleSound ==
  ASSUME SimpleInv
  PROVE  RentalsSound
<1>1. ASSUME NEW u \in DOMAIN purse, ~unwritten, \A r \in Renting : handler[r].user # u
      PROVE  purse[u].locked = Escrowed(u)
  <2>1. Settled(u) = ListRentals(u) \ Cut
    BY <1>1 DEF Settled, ListRentals, Cut, SimpleInv, HandlersSound, Renting
  <2>2. Escrowed(u) = Total(Escrow, ListRentals(u) \ Cut)
    <3> DEFINE S == ListRentals(u) \ Cut
               Rec(g) == g = [s \in SUBSET S |-> IF s = {} THEN 0
                                ELSE LET x == CHOOSE x \in s : TRUE
                                     IN  handler[x].escrow + g[s \ {x}]]
               f == CHOOSE g : Rec(g)
    <3>1. Escrowed(u) = f[S]
      BY DEF Escrowed, MapThenSumSet, MapThenFoldSet
    <3>2. IsFiniteSet(S) /\ S \subseteq SimpleRequests
      BY FS_Subset DEF SimpleInv, HandlersSound, ListRentals
    <3>3. \A x \in S : Escrow[x] = handler[x].escrow /\ Escrow[x] \in Int
      BY <3>2 DEF Escrow, SimpleInv, HandlersSound, Handler
    <3> HIDE DEF S
    <3> DEFINE d == Escrow
    <3>4. \A x \in S : d[x] = handler[x].escrow /\ d[x] \in Int
      BY <3>3
    <3> HIDE DEF d
    <3>5. \A g : IsSum(g, d, S) <=> Rec(g)
      <4> SUFFICES ASSUME NEW g PROVE IsSum(g, d, S) <=> Rec(g)
        OBVIOUS
      <4>1. ASSUME NEW s \in SUBSET S
            PROVE  (IF s = {} THEN 0 ELSE LET x == CHOOSE x \in s : TRUE IN d[x] + g[s \ {x}])
                   = (IF s = {} THEN 0
                      ELSE LET x == CHOOSE x \in s : TRUE IN handler[x].escrow + g[s \ {x}])
        <5>1. s # {} => (CHOOSE x \in s : TRUE) \in S
          OBVIOUS
        <5> QED  BY <3>4, <5>1
      <4> QED  BY <4>1 DEF IsSum
    <3>6. PICK h : IsSum(h, d, S) /\ Total(d, S) = h[S]
      BY <3>2, <3>4, TotalSum
    <3>7. IsSum(f, d, S)
      <4> HIDE DEF Rec
      <4> QED  BY <3>5, <3>6
    <3> HIDE DEF f
    <3>8. f[S] = h[S]
      BY <3>2, <3>6, <3>7, SumsAgree
    <3> QED  BY <3>1, <3>6, <3>8 DEF S, d
  <2>3. purse[u].locked = Total(Escrow, Settled(u))
    BY <1>1 DEF SimpleInv, Backed
  <2> QED  BY <2>1, <2>2, <2>3
<1>2. RentalsBacked
  BY <1>1 DEF RentalsBacked, WalletBalance, SimpleInv, Backed
<1>3. OverbookNeedsOverlap
  <2> SUFFICES ASSUME ~overlapped, ~unwritten PROVE OverbookNeedsOverlap
    BY Zenon DEF OverbookNeedsOverlap
  <2>1. \A r \in rentals \ Cut, s \in rentals \ Cut :
          handler[r].gpu = handler[s].gpu => r = s
    BY DEF SimpleInv, Alone
  <2>2. \A r \in rentals \ (Cut \cup Renting) : handler[r].gpu \notin ListGPUs
    <3>1. \A r \in rentals \ (Cut \cup Renting) : handler[r].at # "rent"
      BY DEF Renting, SimpleInv, HandlersSound
    <3> QED  BY <3>1 DEF ListGPUs, SimpleInv, Alone
  <2>3. \A u \in DOMAIN purse : WalletBalance(u).available >= 0
    BY DEF WalletBalance, SimpleInv, Alone
  <2> QED  BY <2>1, <2>2, <2>3 DEF OverbookNeedsOverlap
<1> QED  BY <1>2, <1>3 DEF RentalsSound

----------------------------------------------------------------------------
(* The components together.                                                *)

\* Each component keeps its own invariant.
EdgeInv ==
  /\ StoreInv /\ CacheInv /\ KratosInv
  /\ HubInv /\ MonitorInv
  /\ ClientInv /\ BalancerInv /\ PricingInv
  /\ SettingsInv /\ FeedInv /\ SimpleInv

\* The two components on Redis share the clock, which the other one sees tick.
LEMMA ClockTicks ==
  /\ SessionStoreNext => Later \/ UNCHANGED now
  /\ CacheServiceNext => Later \/ UNCHANGED now
<1>1. ASSUME NEW c \in Callers, Abort(c) PROVE UNCHANGED now
  BY <1>1 DEF Abort, sessionStoreVars
<1> QED  BY <1>1 DEF SessionStoreNext, CacheServiceNext

\* A step of the system is a step of one of the components on Redis, or the
\* clock of the other, ...
LEMMA RedisSteps ==
  ASSUME EdgeNext \/ UNCHANGED edgeVars
  PROVE  /\ \/ SessionStoreNext
            \/ (Later \/ UNCHANGED now) /\ UNCHANGED <<storeVars, limiterVars>>
         /\ CacheServiceNext \/ ((Later \/ UNCHANGED now) /\ UNCHANGED cacheVars)
         /\ KratosNext \/ UNCHANGED kratosVars
<1>1. CASE StoreMoves
  BY <1>1, ClockTicks DEF StoreMoves, otherVars
<1>2. CASE CacheMoves
  BY <1>2, ClockTicks DEF CacheMoves, otherVars
<1>3. CASE HubMoves \/ SimpleMoves \/ ClientMoves \/ BalancerMoves
  BY <1>3 DEF HubMoves, SimpleMoves, ClientMoves, BalancerMoves, otherVars
<1>4. CASE PricingMoves \/ MonitorMoves \/ KratosMoves \/ DaemonMoves
  BY <1>4 DEF PricingMoves, MonitorMoves, KratosMoves, DaemonMoves
<1>5. CASE UNCHANGED edgeVars
  BY <1>5 DEF edgeVars
<1> QED  BY <1>1, <1>2, <1>3, <1>4, <1>5 DEF EdgeNext

\* ... and a step of at most one of the others.
LEMMA SocketSteps ==
  ASSUME EdgeNext \/ UNCHANGED edgeVars
  PROVE  /\ HubNext \/ UNCHANGED hubVars
         /\ MonitorNext \/ UNCHANGED monitorVars
         /\ RentalClientNext \/ UNCHANGED rentalClientVars
         /\ SimpleNext \/ UNCHANGED simpleVars
<1>1. CASE StoreMoves \/ CacheMoves
  BY <1>1 DEF StoreMoves, CacheMoves, otherVars
<1>2. CASE HubMoves \/ SimpleMoves \/ ClientMoves \/ BalancerMoves
  BY <1>2 DEF HubMoves, SimpleMoves, ClientMoves, BalancerMoves, otherVars
<1>3. CASE PricingMoves \/ MonitorMoves \/ KratosMoves \/ DaemonMoves
  BY <1>3 DEF PricingMoves, MonitorMoves, KratosMoves, DaemonMoves
<1>4. CASE UNCHANGED edgeVars
  BY <1>4 DEF edgeVars, otherVars
<1> QED  BY <1>1, <1>2, <1>3, <1>4 DEF EdgeNext

LEMMA ServiceSteps ==
  ASSUME EdgeNext \/ UNCHANGED edgeVars
  PROVE  /\ BalancerNext \/ UNCHANGED balancerVars
         /\ PricingNext \/ UNCHANGED pricingVars
         /\ SettingsNext \/ UNCHANGED settingsVars
         /\ TaskFeedNext \/ UNCHANGED feedVars
<1>1. CASE StoreMoves \/ CacheMoves
  BY <1>1 DEF StoreMoves, CacheMoves, otherVars, daemonVars
<1>2. CASE HubMoves \/ SimpleMoves \/ ClientMoves \/ BalancerMoves
  BY <1>2 DEF HubMoves, SimpleMoves, ClientMoves, BalancerMoves, otherVars, daemonVars
<1>3. CASE PricingMoves \/ MonitorMoves \/ KratosMoves \/ DaemonMoves
  BY <1>3 DEF PricingMoves, MonitorMoves, KratosMoves, DaemonMoves, daemonVars
<1>4. CASE UNCHANGED edgeVars
  BY <1>4 DEF edgeVars
<1> QED  BY <1>1, <1>2, <1>3, <1>4 DEF EdgeNext

\* The invariant that the theorems below rest on: the components', taken
\* together.
LEMMA EdgeInvariant == EdgeSpec => []EdgeInv
<1>1. EdgeInit => EdgeInv
  BY StoreStart, CacheStart, KratosStart, HubStart, MonitorStart, ClientStart,
     BalancerStart, PricingStart, SettingsStart, FeedStart, SimpleStart, Zenon
     DEF EdgeInit, EdgeInv
<1>2. EdgeInv /\ [EdgeNext]_edgeVars => EdgeInv'
  <2> SUFFICES ASSUME EdgeInv, EdgeNext \/ UNCHANGED edgeVars PROVE EdgeInv'
    BY Zenon
  <2>1. StoreInv' /\ CacheInv' /\ KratosInv'
    BY RedisSteps, StoreKeeps, CacheKeeps, KratosKeeps, Zenon DEF EdgeInv
  <2>2. HubInv' /\ MonitorInv' /\ ClientInv' /\ SimpleInv'
    BY SocketSteps, HubKeeps, MonitorKeeps, ClientKeeps, SimpleKeeps, Zenon DEF EdgeInv
  <2>3. BalancerInv' /\ PricingInv' /\ SettingsInv' /\ FeedInv'
    BY ServiceSteps, BalancerKeeps, PricingKeeps, SettingsKeeps, FeedKeeps, Zenon DEF EdgeInv
  <2> QED  BY <2>1, <2>2, <2>3, Zenon DEF EdgeInv
<1> QED  BY <1>1, <1>2, PTL DEF EdgeSpec

\* A deleted session stays deleted unless its update had read it before, the
\* login limiter's counters have an end unless a request died at setting it,
\* gpus:available lists no GPU whose key says it is taken but for a call that
\* is unfinished, raced or failed, a window of the rate limit is overshot by
\* less than one request per caller, and whatever cookies clients send, a
\* request is known only as a session that Kratos vouched for: by the session's
\* own cookie, if it had not ended by then, or by its ID as the first part.
THEOREM RedisSoundCorrect == EdgeSpec => []RedisSound
<1>1. EdgeInv => RedisSound
  BY KratosKnown, Zenon DEF EdgeInv, StoreInv, CacheInv, RedisSound, StoreSound
<1> QED  BY <1>1, EdgeInvariant, PTL

\* The hub's process panics only after Run dropped a slow client, never over
\* one that left by itself; a viewer whose handler returned is no longer in
\* the monitoring service's map, and no answer given under its lock mixes two
\* updates.
THEOREM SocketsSoundCorrect == EdgeSpec => []SocketsSound
<1>1. EdgeInv => SocketsSound
  BY Zenon DEF EdgeInv, HubInv, MonitorInv, SocketsSound, FeedSound
<1> QED  BY <1>1, EdgeInvariant, PTL

\* No request takes effect twice, one whose answer tells of a change made by a
\* service that was asked has made it, a job that was refused never runs, and
\* a CLI that shows its menu has the wallet its own request made; of a job that
\* was taken the answer 202 says nothing, for NATS may lose it.
THEOREM AnswersTrueCorrect == EdgeSpec => []AnswersTrue
<1>1. EdgeInv => AnswersTrue
  BY ClientAnswers, Zenon DEF EdgeInv
<1> QED  BY <1>1, EdgeInvariant, PTL

\* The daemon's file holds what its owner saved and it starts with that, as
\* long as commands neither overlap nor die in a write; and while it serves
\* some loop of it listens for tasks.
THEOREM DaemonSoundCorrect == EdgeSpec => []DaemonSound
<1>1. EdgeInv => DaemonSound
  BY SettingsHold, FeedListens, Zenon DEF EdgeInv, DaemonSound
<1> QED  BY <1>1, EdgeInvariant, PTL

\* A listed model is always quoted its listed rate, and an hour's quote covers
\* an hour's charge within one GB and one kW, for any table and any rates.
THEOREM PricesSoundCorrect == EdgeSpec => []PricesSound
<1>1. EdgeInv => PricesSound
  BY QuotesHold, HourHolds, Zenon DEF EdgeInv, PricesSound
<1> QED  BY <1>1, EdgeInvariant, PTL

\* The instances of a service get the same number of requests, give or take
\* one, and one more for each pick that was another service's or went by a list
\* from before and for each time the counter wrapped, for any number of
\* requests and instances and any size of the counter.
THEOREM RoundRobinFairCorrect == EdgeSpec => []RoundRobinFair
<1>1. EdgeInv => RoundRobinFair
  BY LevelIsFair, Zenon DEF EdgeInv
<1> QED  BY <1>1, EdgeInvariant, PTL

\* What a wallet shows as locked is the escrows of the rentals listed for its
\* user, but for those whose request a crash has cut off, once none is being
\* made and no UPDATE has failed; a GPU has two rentals, or is offered while it
\* has one, only after rental requests overlapped, an UPDATE failed, or a crash
\* cut one of them off; and a wallet is overdrawn only after one of the first
\* two: for any number of requests, users and GPUs and any escrows.
THEOREM RentalsSoundCorrect == EdgeSpec => []RentalsSound
<1>1. EdgeInv => RentalsSound
  BY SimpleSound, Zenon DEF EdgeInv
<1> QED  BY <1>1, EdgeInvariant, PTL
=============================================================================
