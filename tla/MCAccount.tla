------------------------------ MODULE MCAccount ------------------------------
EXTENDS Account

(* An account to be made, one with an authenticator that is not verified   *)
(* yet, which is a password only as long as nobody verifies it (its set-up,*)
(* a login and a backup code make three requests), and one with a second   *)
(* factor of each kind, the latter with a code that was never used.        *)
MCNone  == [state |-> "none", secret |-> 0]
MCSetUp == [state |-> "pending", secret |-> 0]
MCOn    == [state |-> "enabled", secret |-> 0]
MCUser  == [exists |-> TRUE, active |-> TRUE, verified |-> TRUE, pwd |-> 1]

MCAccounts ==
  {[user |-> [MCUser EXCEPT !.exists = FALSE, !.active = FALSE, !.verified = FALSE],
    factor |-> [m \in Methods |-> MCNone], codes |-> <<>>],
   [user |-> MCUser, factor |-> [m \in Methods |-> IF m = "totp" THEN MCOn ELSE MCNone],
    codes |-> <<>>],
   [user |-> MCUser, factor |-> [m \in Methods |-> IF m = "totp" THEN MCSetUp ELSE MCNone],
    codes |-> <<>>],
   [user |-> MCUser, factor |-> [m \in Methods |-> IF m = "code" THEN MCOn ELSE MCNone],
    codes |-> <<Code(0)>>]}
=============================================================================
