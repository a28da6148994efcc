------------------------------ MODULE Account ------------------------------
(***************************************************************************)
(* One account of auth-service: the handlers of internal/handlers (login,  *)
(* registration, password reset, second factor, API keys) behind the       *)
(* middleware.  Every statement names one e-mail address or user id, so    *)
(* accounts do not interact and one is enough.  A request is a number and  *)
(* also names what it creates: a session, a token, a secret, a code, a     *)
(* key.  pc[r] is the statement it runs next; between two statements any   *)
(* other request may run.                                                  *)
(*                                                                         *)
(* The clock is a set of steps by which something expires at any moment.   *)
(* No main program uses the package; its tables are those its statements   *)
(* name, and a column that an INSERT leaves out can be read.               *)
(***************************************************************************)
EXTENDS Integers, Sequences, SequencesExt

CONSTANTS MaxRequests,       \* bound: requests of a behaviour
          Passwords,
          MaxLoginAttempts,
          RequireVerified,   \* RequireEmailVerified, RequireEmailVerification
          Enable2FA,
          Accounts,          \* accounts a behaviour may start with
          Faults             \* store: a statement fails; clock: time passes;
                             \* admin: the user is deactivated in the database

Requests == 1 .. MaxRequests

(* 0 stands for what was made before the first request.                    *)
Ids  == 0 .. MaxRequests
None == -1

Methods == {"totp", "code"}    \* sms and email differ only in who delivers

Users    == [exists : BOOLEAN, active : BOOLEAN, verified : BOOLEAN, pwd : Passwords]
Factors  == [Methods -> [state : {"none", "pending", "enabled"}, secret : Ids]]
Sessions == [token : Ids, state : {"none", "live", "revoked", "expired"}]
Codes    == [id : Ids, state : {"open", "used", "expired"}]

Code(i) == [id |-> i, state |-> "open"]

ASSUME AccountAssumption ==
  /\ MaxRequests \in Nat /\ MaxLoginAttempts \in Nat \ {0}
  /\ RequireVerified \in BOOLEAN /\ Enable2FA \in BOOLEAN
  /\ Faults \subseteq {"store", "clock", "admin"}
  /\ \A a \in Accounts :
        /\ a.user \in Users /\ a.factor \in Factors /\ a.codes \in {<<>>, <<Code(0)>>}
        /\ \A m \in Methods : a.factor[m].secret = 0

VARIABLES
  db,      \* the tables:
           \*   user       row of users
           \*   recent     failed rows of login_attempts in the last 15 minutes
           \*   lock       locked_until of the newest of its rows is in the future
           \*   session    active_sessions by id
           \*   factor     two_factor_auth by method; newest: by created_at
           \*   codes      two_factor_codes by created_at
           \*   backup     unused two_factor_backup_codes
           \*   challenge  two_factor_sessions
           \*   stored     hashes of mailed tokens
           \*   cooling    the last reset token is younger than ResetCooldown
           \*   key        api_keys
  pc,      \* the statement a request runs next
  in,      \* its input
  loc,     \* what it has read
  hist     \* history:
           \*   given      refresh tokens that were handed out
           \*   spent      refresh tokens that were exchanged
           \*   proven     TOTP secrets whose codes were checked
           \*   accepted   how often a one-time code was accepted
           \*   locked     a lock is in force;  lapsed: one has run out
           \*   unmarked   a write failed and its error was ignored
           \*   apart      families of requests of which no two overlapped

vars == <<db, pc, in, loc, hist>>

Calls == {"exists", "create", "locked", "user", "has2FA", "create2FA", "session",
          "count", "record", "valid", "active", "rotate", "logout", "revoke",
          "read", "change", "forgot", "cooldown", "reset", "resend", "verify", "redeem",
          "enabled", "upsert", "code", "pending", "setupcode", "markcode", "backups",
          "enable", "challenge", "method", "backupcode", "markbackup", "logincode",
          "verified", "hash", "disable", "drop", "newkey", "endkey"}

(* The statements of the requests that compete for the same rows.          *)
Family ==
  [login   |-> {"locked", "user", "has2FA", "create2FA", "session", "count", "record"},
   refresh |-> {"valid", "active", "rotate"},
   factor  |-> {"enabled", "upsert", "code", "pending", "setupcode", "markcode", "backups",
                "enable", "challenge", "method", "backupcode", "markbackup", "logincode",
                "verified"}]

(* Tables, statements and copies are the ones the handlers know.           *)
TypeOK ==
  /\ db.user \in Users /\ db.recent \in Nat /\ db.lock \in BOOLEAN
  /\ db.session \in [Ids -> Sessions] /\ db.factor \in Factors
  /\ db.newest \in Seq(Methods) /\ db.codes \in Seq(Codes) /\ db.backup \subseteq Requests
  /\ db.challenge \in [Requests -> {"none", "open", "verified", "expired"}]
  /\ db.stored \subseteq Requests \X Requests /\ db.cooling \in BOOLEAN
  /\ db.key \in [Requests -> {"none", "active", "revoked", "expired"}]
  /\ pc \in [Requests -> Calls \cup {"new", "done"}]
  /\ hist.given \subseteq Ids /\ hist.spent \subseteq Ids /\ hist.proven \subseteq Ids

Init ==
  /\ \E a \in Accounts :
        /\ db = [user |-> a.user, recent |-> 0, lock |-> FALSE,
                 session |-> [i \in Ids |->
                    [token |-> i, state |-> IF i = 0 /\ a.user.exists THEN "live" ELSE "none"]],
                 factor |-> a.factor,
                 newest |-> SetToSeq({m \in Methods : a.factor[m].state # "none"}),
                 codes |-> a.codes, backup |-> {},
                 challenge |-> [r \in Requests |-> "none"],
                 stored |-> {}, cooling |-> FALSE,
                 key |-> [r \in Requests |-> "none"]]
        /\ hist = [given |-> IF a.user.exists THEN {0} ELSE {}, spent |-> {},
                   proven |-> {i \in {0} : a.factor["totp"].state = "enabled"},
                   accepted |-> [i \in Ids |-> 0],
                   locked |-> FALSE, lapsed |-> FALSE, unmarked |-> FALSE, apart |-> DOMAIN Family]
  /\ pc = [r \in Requests |-> "new"]
  /\ in = [r \in Requests |-> None] /\ loc = [r \in Requests |-> None]
-----------------------------------------------------------------------------
At(r, call) == pc[r] = call

(* A request goes on with what it has read, or is answered and forgotten.  *)
Goto(r, call, value) ==
  /\ pc' = [pc EXCEPT ![r] = call]
  /\ in' = [in EXCEPT ![r] = IF call = "done" THEN None ELSE @]
  /\ loc' = [loc EXCEPT ![r] = IF call = "done" THEN None ELSE value]

Running(r) == pc[r] \notin {"new", "done"}

(* A statement that only reads, and one that writes.                       *)
Read(r, call, value) ==
  /\ Goto(r, call, value)
  /\ UNCHANGED <<db, hist>>

Branch(r, call) == Read(r, call, loc[r])

Write(r, call, tables, history) ==
  /\ Goto(r, call, loc[r]) /\ db' = tables /\ hist' = history

(* Behind Authenticate a handler needs the access token of some login and  *)
(* an active user.  Nothing writes revoked_tokens: the end of a session    *)
(* does not end its access tokens.                                         *)
Authenticate == hist.given # {} /\ db.user.active

Begin(r, call, input) ==
  /\ At(r, "new") /\ \A q \in 1 .. r - 1 : ~At(q, "new")
  /\ pc' = [pc EXCEPT ![r] = call]
  /\ in' = [in EXCEPT ![r] = input]
  /\ hist' = [hist EXCEPT !.apart = {f \in @ : call \in Family[f] =>
                                    \A q \in Requests : pc[q] \notin Family[f]}]
  /\ UNCHANGED <<db, loc>>

(* What a client may send: passwords, tokens it was given, codes and       *)
(* secrets it was sent (older ones too), links from its mails.             *)
Start(r) ==
  \/ \E p \in Passwords : Begin(r, "exists", p) \/ Begin(r, "locked", p)
  \/ \E t \in hist.given : Begin(r, "valid", t)
  \/ \E h \in db.stored : Begin(r, "verify", h[1]) \/ Begin(r, "redeem", h[1])
  \/ \E c \in {q \in Requests : db.challenge[q] # "none"}, p \in 0 .. r - 1 :
        Begin(r, "challenge", [of |-> c, code |-> p])
  \/ Begin(r, "forgot", None) \/ Begin(r, "resend", None)
  \/ /\ Authenticate
     /\ \/ \E p, q \in Passwords : Begin(r, "read", [old |-> p, new |-> q])
        \/ \E t \in hist.given \cup {None} : Begin(r, "logout", t)
        \/ \E s \in {i \in Ids : db.session[i].state # "none"} : Begin(r, "revoke", s)
        \/ \E m \in Methods : Begin(r, "enabled", m)
        \/ \E p \in 0 .. r - 1 : Begin(r, "pending", [code |-> p])
        \/ Begin(r, "hash", None) \/ Begin(r, "newkey", None)
        \/ \E k \in {q \in Requests : db.key[q] # "none"} : Begin(r, "endkey", k)
-----------------------------------------------------------------------------
(* Register: the check, then one transaction.  users.email is unique, so   *)
(* the INSERT of a second registration fails.  Without verification the    *)
(* user is verified at once.                                               *)
UserExists(r) ==
  /\ At(r, "exists")
  /\ Branch(r, IF db.user.exists THEN "done" ELSE "create")

CreateUser(r) ==
  /\ At(r, "create")
  /\ IF db.user.exists
     THEN Branch(r, "done")
     ELSE Write(r, "done",
            [db EXCEPT !.user = [exists |-> TRUE, active |-> TRUE,
                                 verified |-> ~RequireVerified, pwd |-> in[r]],
                       !.stored = IF RequireVerified THEN @ \cup {<<r, r>>} ELSE @], hist)

(* Login: only the newest attempt tells whether the account is locked.     *)
IsAccountLocked(r) ==
  /\ At(r, "locked")
  /\ Branch(r, IF db.lock THEN "done" ELSE "user")

(* The user row: does it exist, may it log in, is the password right.      *)
GetUser(r) ==
  /\ At(r, "user")
  /\ IF ~db.user.exists THEN Read(r, "count", FALSE)
     ELSE IF ~db.user.active \/ (RequireVerified /\ ~db.user.verified) THEN Branch(r, "done")
     ELSE IF db.user.pwd # in[r] THEN Read(r, "count", FALSE)
     ELSE Read(r, "has2FA", TRUE)

Enabled == {m \in Methods : db.factor[m].state = "enabled"}

Has2FAEnabled(r) ==
  /\ At(r, "has2FA")
  /\ Branch(r, IF Enabled # {} /\ Enable2FA THEN "create2FA" ELSE "session")

Create2FASession(r) ==
  /\ At(r, "create2FA")
  /\ Write(r, "done", [db EXCEPT !.challenge[r] = "open"], hist)

(* Roles are read, tokens are signed and the session is stored.            *)
CreateSession(r) ==
  /\ At(r, "session")
  /\ Write(r, "count", [db EXCEPT !.session[r] = [token |-> r, state |-> "live"]],
           [hist EXCEPT !.given = @ \cup {r}])

(* recordLoginAttempt: a COUNT and an INSERT.  A successful attempt does   *)
(* not reset the count.                                                    *)
CountFailed(r) ==
  /\ At(r, "count")
  /\ Read(r, "record", [ok |-> loc[r], failed |-> db.recent])

(* Mutant of Locks: one attempt too many.                                  *)
LocksLate(l) == ~l.ok /\ l.failed >= MaxLoginAttempts

Locks(l) == ~l.ok /\ l.failed >= MaxLoginAttempts - 1

InsertAttempt(r) ==
  /\ At(r, "record")
  /\ Write(r, "done",
        [db EXCEPT !.recent = IF loc[r].ok THEN @ ELSE @ + 1, !.lock = Locks(loc[r])],
        [hist EXCEPT !.locked = @ \/ Locks(loc[r])])
-----------------------------------------------------------------------------
(* RefreshToken: is the session valid, is the user active, then the new    *)
(* token replaces the one that was sent, wherever it still is.             *)
IsSessionValid(r) ==
  /\ At(r, "valid")
  /\ Branch(r, IF \E s \in Ids : db.session[s] = [token |-> in[r], state |-> "live"]
               THEN "active" ELSE "done")

IsActive(r) ==
  /\ At(r, "active")
  /\ Branch(r, IF db.user.active THEN "rotate" ELSE "done")

Rows(t) == {s \in Ids : db.session[s].token = t /\ db.session[s].state # "none"}

Set(rows, f) == [s \in Ids |-> IF s \in rows THEN f[s] ELSE db.session[s]]

(* Mutant of UpdateSession: the new token is not stored.                   *)
UpdateSessionNot(r) ==
  /\ At(r, "rotate")
  /\ Write(r, "done", db,
           [hist EXCEPT !.given = @ \cup {r}, !.spent = @ \cup {in[r]}])

UpdateSession(r) ==
  /\ At(r, "rotate")
  /\ Write(r, "done",
        [db EXCEPT !.session = Set(Rows(in[r]), [s \in Ids |-> [db.session[s] EXCEPT !.token = r]])],
        [hist EXCEPT !.given = @ \cup {r}, !.spent = @ \cup {in[r]}])

Revoked(rows) ==
  [db EXCEPT !.session = Set(rows, [s \in Ids |-> [db.session[s] EXCEPT !.state = "revoked"]])]

(* Logout ends the session of the token that was sent, or all of them.     *)
Logout(r) ==
  /\ At(r, "logout")
  /\ Write(r, "done",
        IF in[r] # None THEN Revoked(Rows(in[r]))
        ELSE Revoked({s \in Ids : db.session[s].state \notin {"none", "revoked"}}), hist)

RevokeSession(r) ==
  /\ At(r, "revoke")
  /\ Write(r, "done", Revoked({in[r]}), hist)

(* ChangePassword compares with the row it has read and leaves sessions    *)
(* alone.                                                                  *)
GetPassword(r) ==
  /\ At(r, "read")
  /\ Branch(r, IF in[r].old = db.user.pwd /\ in[r].new # db.user.pwd THEN "change" ELSE "done")

ChangePassword(r) ==
  /\ At(r, "change")
  /\ Write(r, "done", [db EXCEPT !.user.pwd = in[r].new], hist)

(* hashToken is bcrypt: it draws a salt, here the request that hashes.     *)
HashToken(t, r) == <<t, r>>

(* RequestPasswordReset: user, cooldown, INSERT.                           *)
GetResetUser(r) ==
  /\ At(r, "forgot")
  /\ Branch(r, IF db.user.exists /\ db.user.active THEN "cooldown" ELSE "done")

CanRequestReset(r) ==
  /\ At(r, "cooldown")
  /\ Branch(r, IF db.cooling THEN "done" ELSE "reset")

StoreResetToken(r) ==
  /\ At(r, "reset")
  /\ Write(r, "done", [db EXCEPT !.stored = @ \cup {HashToken(r, r)}, !.cooling = TRUE], hist)

ResendVerification(r) ==
  /\ At(r, "resend")
  /\ IF ~db.user.exists \/ ~db.user.active \/ db.user.verified
     THEN Branch(r, "done")
     ELSE Write(r, "done", [db EXCEPT !.stored = @ \cup {HashToken(r, r)}], hist)

(* VerifyEmail and ResetPassword look a token up by its hash, made with a  *)
(* new salt: no row is ever found, and what follows is not reached.        *)
NoSuchToken(r) ==
  /\ HashToken(in[r], r) \notin db.stored
  /\ Branch(r, "done")

VerifyEmail(r) == At(r, "verify") /\ NoSuchToken(r)

ResetPassword(r) == At(r, "redeem") /\ NoSuchToken(r)
-----------------------------------------------------------------------------
(* Mutant of Check2FA: a method that is enabled is set up again.           *)
Check2FANot(r) ==
  /\ At(r, "enabled")
  /\ Branch(r, IF in[r] = "code" THEN "code" ELSE "upsert")

(* Enable2FA: refused while some method is enabled; otherwise a new secret *)
(* replaces the one that is stored, or a code is sent.  The upsert leaves  *)
(* is_enabled as it finds it.                                              *)
Check2FA(r) ==
  /\ At(r, "enabled")
  /\ Branch(r, IF Enabled # {} THEN "done" ELSE IF in[r] = "code" THEN "code" ELSE "upsert")

StoreCode(r) ==
  /\ At(r, "code")
  /\ Write(r, "upsert", [db EXCEPT !.codes = Append(@, Code(r))], hist)

StoreMethod(r) ==
  /\ At(r, "upsert")
  /\ Write(r, "done",
        [db EXCEPT !.factor[in[r]] =
                      [state  |-> IF @.state = "none" THEN "pending" ELSE @.state,
                       secret |-> IF in[r] = "totp" THEN r ELSE @.secret],
                   !.newest = Append(Remove(@, in[r]), in[r])], hist)

Accept(h, id) == [h EXCEPT !.accepted[id] = @ + 1]

(* Verify2FASetup: the newest method that is not enabled, and its code.    *)
GetPending2FA(r) ==
  LET pending == SelectSeq(db.newest, LAMBDA m : db.factor[m].state = "pending")
  IN /\ At(r, "pending")
     /\ IF pending = <<>> THEN Branch(r, "done")
        ELSE LET m == Last(pending)
             IN IF m = "code" THEN Read(r, "setupcode", m)
                ELSE IF in[r].code # db.factor[m].secret THEN Branch(r, "done")
                ELSE /\ Goto(r, "backups", m)
                     /\ hist' = [hist EXCEPT !.proven = @ \cup {in[r].code}]
                     /\ UNCHANGED db

(* A code that was sent: the newest one that is unused, if not expired.    *)
CheckCode(r) ==
  /\ \/ At(r, "setupcode")
     \/ At(r, "logincode")
  /\ IF \E k \in DOMAIN db.codes :
           /\ db.codes[k] = Code(in[r].code)
           /\ \A j \in DOMAIN db.codes : j > k => db.codes[j].state = "used"
     THEN Write(r, "markcode", db, Accept(hist, in[r].code))
     ELSE Branch(r, "done")

AfterCode(r) == IF "of" \in DOMAIN in[r] THEN "verified" ELSE "backups"

(* Mutant of MarkCode: the code stays unused.                              *)
MarkCodeNot(r) == At(r, "markcode") /\ Branch(r, AfterCode(r))

MarkCode(r) ==
  /\ At(r, "markcode")
  /\ Write(r, AfterCode(r),
        [db EXCEPT !.codes = [k \in DOMAIN @ |->
            IF @[k].id = in[r].code THEN [@[k] EXCEPT !.state = "used"] ELSE @[k]]], hist)

(* Backup codes, the BackupCodesCount of them as one.                      *)
GenerateBackupCodes(r) ==
  /\ At(r, "backups")
  /\ Write(r, "enable", [db EXCEPT !.backup = @ \cup {r}], hist)

EnableMethod(r) ==
  /\ At(r, "enable")
  /\ Write(r, "done", [db EXCEPT !.factor[loc[r]].state = "enabled"], hist)

(* Verify2FALogin: the challenge, the method, the code or a backup code.   *)
(* No token is given out.                                                  *)
Get2FASession(r) ==
  /\ At(r, "challenge")
  /\ Branch(r, IF db.challenge[in[r].of] = "open" THEN "method" ELSE "done")

Get2FAMethod(r) ==
  /\ At(r, "method")
  /\ \/ Enabled = {} /\ Branch(r, "done")
     \/ \E m \in Enabled :
           Branch(r, IF m = "code" THEN "logincode"
                     ELSE IF in[r].code = db.factor[m].secret THEN "verified"
                     ELSE "backupcode")

VerifyBackupCode(r) ==
  /\ At(r, "backupcode")
  /\ IF in[r].code \in db.backup
     THEN Write(r, "markbackup", db, Accept(hist, in[r].code))
     ELSE Branch(r, "done")

MarkBackupCode(r) ==
  /\ At(r, "markbackup")
  /\ Write(r, "verified", [db EXCEPT !.backup = @ \ {in[r].code}], hist)

Mark2FASession(r) ==
  /\ At(r, "verified")
  /\ Write(r, "done", [db EXCEPT !.challenge[in[r].of] = "verified"],
           Accept(hist, in[r].of))

(* Disable2FA reads the password hash and checks neither it nor a code.    *)
GetHash(r) == At(r, "hash") /\ Branch(r, "disable")

DisableMethods(r) ==
  /\ At(r, "disable")
  /\ Write(r, "drop",
        [db EXCEPT !.factor = [m \in Methods |->
            IF m \in Enabled THEN [@[m] EXCEPT !.state = "pending"] ELSE @[m]]], hist)

DropBackupCodes(r) ==
  /\ At(r, "drop")
  /\ Write(r, "done", [db EXCEPT !.backup = {}], hist)

CreateAPIKey(r) ==
  /\ At(r, "newkey")
  /\ Write(r, "done", [db EXCEPT !.key[r] = "active"], hist)

RevokeAPIKey(r) ==
  /\ At(r, "endkey")
  /\ Write(r, "done", [db EXCEPT !.key[in[r]] = "revoked"], hist)
-----------------------------------------------------------------------------
(* A statement fails.  Most handlers give up; some writes are not checked  *)
(* and the handler goes on.                                                *)
StoreFails(r) ==
  /\ "store" \in Faults /\ Running(r)
  /\ Goto(r, IF At(r, "markcode") THEN AfterCode(r)
             ELSE IF At(r, "markbackup") THEN "verified" ELSE "done", loc[r])
  /\ hist' = [hist EXCEPT !.unmarked =
                 @ \/ pc[r] \in {"markcode", "markbackup", "verified"}]
  /\ UNCHANGED db

(* Something expires.                                                      *)
Expires(tables) ==
  /\ "clock" \in Faults /\ db' = tables
  /\ UNCHANGED <<pc, in, loc>>

LockExpires ==
  /\ hist.locked
  /\ Expires([db EXCEPT !.lock = FALSE])
  /\ hist' = [hist EXCEPT !.locked = FALSE, !.lapsed = TRUE]

Expiry ==
  /\ \/ db.recent > 0 /\ Expires([db EXCEPT !.recent = @ - 1])
     \/ db.cooling /\ Expires([db EXCEPT !.cooling = FALSE])
     \/ \E s \in Ids : /\ db.session[s].state = "live"
                       /\ Expires([db EXCEPT !.session[s].state = "expired"])
     \/ \E c \in Requests : /\ db.challenge[c] = "open"
                            /\ Expires([db EXCEPT !.challenge[c] = "expired"])
     \/ \E k \in DOMAIN db.codes : /\ db.codes[k].state = "open"
                                   /\ Expires([db EXCEPT !.codes[k].state = "expired"])
  /\ UNCHANGED hist

Deactivate ==
  /\ "admin" \in Faults /\ db.user.exists /\ db.user.active
  /\ db' = [db EXCEPT !.user.active = FALSE]
  /\ UNCHANGED <<pc, in, loc, hist>>

Quiet ==
  /\ \A r \in Requests : At(r, "done")
  /\ UNCHANGED vars

Next ==
  \/ \E r \in Requests :
        \/ Start(r)
        \/ UserExists(r) \/ CreateUser(r)
        \/ IsAccountLocked(r) \/ GetUser(r) \/ Has2FAEnabled(r) \/ Create2FASession(r)
        \/ CreateSession(r) \/ CountFailed(r) \/ InsertAttempt(r)
        \/ IsSessionValid(r) \/ IsActive(r) \/ UpdateSession(r)
        \/ Logout(r) \/ RevokeSession(r) \/ GetPassword(r) \/ ChangePassword(r)
        \/ GetResetUser(r) \/ CanRequestReset(r) \/ StoreResetToken(r)
        \/ ResendVerification(r) \/ VerifyEmail(r) \/ ResetPassword(r)
        \/ Check2FA(r) \/ StoreCode(r) \/ StoreMethod(r)
        \/ GetPending2FA(r) \/ CheckCode(r) \/ MarkCode(r)
        \/ GenerateBackupCodes(r) \/ EnableMethod(r)
        \/ Get2FASession(r) \/ Get2FAMethod(r) \/ VerifyBackupCode(r)
        \/ MarkBackupCode(r) \/ Mark2FASession(r)
        \/ GetHash(r) \/ DisableMethods(r) \/ DropBackupCodes(r)
        \/ CreateAPIKey(r) \/ RevokeAPIKey(r)
        \/ StoreFails(r)
  \/ LockExpires \/ Expiry \/ Deactivate
  \/ Quiet

Spec == Init /\ [][Next]_vars
-----------------------------------------------------------------------------
(* MaxLoginAttempts failures inside a window lock the account, and until   *)
(* the lock runs out every login meets it, although isAccountLocked looks  *)
(* at the newest attempt only and a success resets nothing.  Logins that   *)
(* overlap can hide a lock: one that had passed the check writes an        *)
(* attempt without a lock after it.                                        *)
LockHolds ==
  "login" \in hist.apart =>
     /\ hist.locked => db.lock
     /\ db.recent >= MaxLoginAttempts => hist.locked \/ hist.lapsed

(* A code, a backup code and a challenge of the second factor are good for *)
(* one use, whichever handler uses them, as long as the writes that mark   *)
(* them succeed and no two of these handlers overlap.                      *)
OneTimeCodes ==
  "factor" \in hist.apart /\ ~hist.unmarked => \A i \in Ids : hist.accepted[i] <= 1

(* The secret of an enabled authenticator is one whose code was checked,   *)
(* otherwise the owner is locked out: no Enable2FA replaces it later.      *)
EnabledWasVerified ==
  "factor" \in hist.apart /\ db.factor["totp"].state = "enabled"
     => db.factor["totp"].secret \in hist.proven

(* The second factor is neither spent twice nor set to a secret that its   *)
(* owner does not have.                                                    *)
FactorSound == OneTimeCodes /\ EnabledWasVerified

(* A refresh token that was handed out and not exchanged yet is the one    *)
(* in the row of its session, whatever login, logout or revocation runs    *)
(* beside the refresh.                                                     *)
TokensUsable ==
  "refresh" \in hist.apart => \A t \in hist.given \ hist.spent : \E s \in Ids :
     db.session[s].token = t /\ db.session[s].state # "none"
=============================================================================
