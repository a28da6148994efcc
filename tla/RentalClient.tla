---------------------------- MODULE RentalClient ----------------------------
(***************************************************************************)
(* The rental CLI (cmd/rental) as a client of the API gateway, beside      *)
(* another client of the same user: it logs in, looks for the user's       *)
(* wallet, makes one if it found none, and then runs commands, one request *)
(* at a time.  It may be started again and again.  The base URL is taken   *)
(* to end in /api/v1, the only one under which its paths can match.        *)
(***************************************************************************)
EXTENDS Gateway

CONSTANT MaxOthers      \* bound: requests of the other client

ASSUME RentalClientAssumption == MaxOthers \in Nat

VARIABLES
  cli,        \* what the CLI is waiting for: "off", "login", "getWallet",
              \* "createWallet", "command", or "menu"
  asked,      \* its request, or 0
  authToken,  \* "none", "valid" or "expired": it is never renewed
  walletID,   \* the wallet it believes in: the request that made it, or 0
  others      \* requests the other client has sent

clientVars == <<cli, asked, authToken, walletID, others>>
rentalClientVars == <<gatewayVars, clientVars>>

RentalClientTypeOK ==
  /\ cli \in {"off", "login", "getWallet", "createWallet", "command", "menu"}
  /\ asked \in HttpRequests \cup {0}
  /\ authToken \in {"none", "valid", "expired"}
  /\ walletID \in HttpRequests \cup {0}
  /\ others \in 0..MaxOthers

RentalClientInit ==
  /\ GatewayInit
  /\ cli = "off" /\ asked = 0 /\ authToken = "none" /\ walletID = 0 /\ others = 0

\* The CLI sends a request and waits in state `pc'.
Ask(pc, kind, body) ==
  /\ \E r \in HttpRequests : Send(r, kind, authToken = "valid", body) /\ asked' = r
  /\ cli' = pc
  /\ UNCHANGED others

Told == http[asked].told
Answered(pc) == cli = pc /\ Stage(asked, "closed")
\* os.Exit, with everything the process knew.
Exit == cli' = "off" /\ authToken' = "none" /\ walletID' = 0 /\ asked' = 0

StartCLI ==
  /\ cli = "off"
  /\ Ask("login", "login", TRUE)
  /\ UNCHANGED <<authToken, walletID>>

\* authenticate
LoggedIn ==
  /\ Answered("login")
  /\ IF Told = 200
       THEN /\ authToken' = "valid" /\ cli' = "getWallet" /\ asked' = 0
            /\ UNCHANGED walletID
       ELSE Exit
  /\ UNCHANGED <<gatewayVars, others>>

\* getUserWallet asks for GET /billing/wallet, which only has a POST.
GetUserWallet ==
  /\ cli = "getWallet" /\ asked = 0
  /\ Ask("getWallet", "unrouted", FALSE)
  /\ UNCHANGED <<authToken, walletID>>

\* setupWallet takes any failure for a missing wallet.
CreateWallet ==
  /\ asked # 0 /\ Answered("getWallet") /\ Told # 200
  /\ Ask("createWallet", "createWallet", TRUE)
  /\ UNCHANGED <<authToken, walletID>>

\* A client that takes any answer for a wallet.
WalletReadyAny ==
  /\ Answered("createWallet")
  /\ walletID' = asked /\ cli' = "menu" /\ asked' = 0
  /\ UNCHANGED <<gatewayVars, authToken, others>>

\* The answer holds the wallet that this request made.
WalletReady ==
  /\ Answered("createWallet")
  /\ IF Told = 201
       THEN /\ walletID' = asked /\ cli' = "menu" /\ asked' = 0
            /\ UNCHANGED authToken
       ELSE Exit
  /\ UNCHANGED <<gatewayVars, others>>

\* The commands and forms of the menu and of the command line.  Balance and
\* estimate name paths that are not routed, and a submission has its
\* parameters in custom_params, not params: its body is not what SubmitJob
\* wants.  Listing providers asks the registry instead.
CommandKinds == {"unrouted", "submit", "status", "cancel"}

Command ==
  /\ cli = "menu"
  /\ \E kind \in CommandKinds : Ask("command", kind, kind # "submit")
  /\ UNCHANGED <<authToken, walletID>>

\* Success is 200, 201 for a submission: the 202 of a cancellation is
\* reported as a failure.  The menu goes on, the command line is done.
CommandDone ==
  /\ Answered("command")
  /\ \/ cli' = "menu" /\ asked' = 0 /\ UNCHANGED <<authToken, walletID>>
     \/ Exit
  /\ UNCHANGED <<gatewayVars, others>>

Quit ==
  /\ cli = "menu"
  /\ Exit
  /\ UNCHANGED <<gatewayVars, others>>

TokenExpires ==
  /\ authToken = "valid"
  /\ authToken' = "expired"
  /\ UNCHANGED <<gatewayVars, cli, asked, walletID, others>>

OtherClient ==
  /\ others < MaxOthers
  /\ others' = others + 1
  /\ \E r \in HttpRequests, k \in Kinds, token \in BOOLEAN, body \in BOOLEAN :
       Send(r, k, token, body)
  /\ UNCHANGED <<cli, asked, authToken, walletID>>

RentalClientNext ==
  \/ StartCLI \/ LoggedIn \/ GetUserWallet \/ CreateWallet \/ WalletReady
  \/ Command \/ CommandDone \/ Quit \/ TokenExpires \/ OtherClient
  \/ GatewayNext /\ UNCHANGED clientVars

----------------------------------------------------------------------------
\* A CLI that shows its menu has the user's wallet, made by the request of
\* its own: not one it was told of although billing had refused it, and not
\* one it only asked for when it lost the answer.
MenuHasWallet ==
  cli \in {"menu", "command"} =>
    walletID # 0 /\ walletID = walletRow /\ applied[walletID] = 1

\* An answer of success can be relied on, by any client and by the CLI, but
\* for a job's, and no lost answer or second caller makes a request take
\* effect twice.
AnswersTrue == AppliedAsTold /\ MenuHasWallet
=============================================================================
