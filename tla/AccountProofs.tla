---------------------------- MODULE AccountProofs ----------------------------
(***************************************************************************)
(* Theorems about Account, for any number of requests, passwords and       *)
(* attempts, any accounts to start with, any settings and any faults.      *)
(***************************************************************************)
EXTENDS Account, TLAPS

Logins    == Family.login
Refreshes == Family.refresh

(* What the proofs need to know of the types.                              *)
AuthTyped ==
  /\ DOMAIN db = {"user", "recent", "lock", "session", "factor", "newest", "codes",
                  "backup", "challenge", "stored", "cooling", "key"}
  /\ DOMAIN hist = {"given", "spent", "proven", "accepted", "locked", "lapsed",
                    "unmarked", "apart"}
  /\ db.recent \in Nat
  /\ db.session \in [Ids -> Sessions]
  /\ hist.apart \subseteq DOMAIN Family
  /\ DOMAIN pc = Requests /\ DOMAIN in = Requests
  /\ DOMAIN loc = Requests

(* Requests of a family that never overlapped do not overlap now.          *)
Alone(family, members) ==
  family \in hist.apart =>
    \A q, r \in Requests : pc[q] \in members /\ pc[r] \in members => q = r

(* A login that has passed the check of the lock goes on without one, and  *)
(* what it has counted was not overtaken.                                  *)
PastLock(r) ==
  "login" \in hist.apart =>
    /\ pc[r] \in Logins \ {"locked"} => ~hist.locked
    /\ pc[r] = "record" => /\ loc[r].failed \in Nat
                           /\ loc[r].failed >= db.recent

(* A session's row is inserted once, and revoked only when it is there.    *)
RowOf(r) ==
  /\ pc[r] \in {"new", "locked", "user", "has2FA", "session"} =>
       db.session[r].state = "none"
  /\ pc[r] = "revoke" => /\ in[r] \in Ids
                         /\ db.session[in[r]].state # "none"

(* The token a refresh has found valid is still in a row.                  *)
Found(r) ==
  "refresh" \in hist.apart /\ pc[r] \in {"active", "rotate"} =>
    \E s \in Ids : db.session[s].token = in[r] /\ db.session[s].state # "none"

AuthInv ==
  /\ AuthTyped
  /\ Alone("login", Logins) /\ Alone("refresh", Refreshes)
  /\ \A r \in Requests : PastLock(r) /\ RowOf(r) /\ Found(r)
  /\ LockHolds /\ TokensUsable

LEMMA RequestIds == Requests \subseteq Ids
BY DEF Requests, Ids

LEMMA AuthStart ==
  ASSUME Init
  PROVE  AuthInv
<1>1. PICK a \in Accounts :
        /\ db = [user |-> a.user, recent |-> 0, lock |-> FALSE,
                 session |-> [i \in Ids |->
                    [token |-> i, state |-> IF i = 0 /\ a.user.exists THEN "live" ELSE "none"]],
                 factor |-> a.factor,
                 newest |-> SetToSeq({m \in Methods : a.factor[m].state # "none"}),
                 codes |-> a.codes, backup |-> {},
                 challenge |-> [r \in Requests |-> "none"],
                 stored |-> {}, cooling |-> FALSE,
                 key |-> [r \in Requests |-> "none"]]
        /\ hist = [given |-> IF a.user.exists THEN {0} ELSE {}, spent |-> {},
                   proven |-> {i \in {0} : a.factor["totp"].state = "enabled"},
                   accepted |-> [i \in Ids |-> 0],
                   locked |-> FALSE, lapsed |-> FALSE, unmarked |-> FALSE,
                   apart |-> DOMAIN Family]
  BY Zenon DEF Init
<1>2. /\ db.recent = 0 /\ ~db.lock
      /\ db.session = [i \in Ids |->
           [token |-> i, state |-> IF i = 0 /\ a.user.exists THEN "live" ELSE "none"]]
      /\ hist.given = IF a.user.exists THEN {0} ELSE {}
      /\ ~hist.locked /\ hist.apart = DOMAIN Family
  BY <1>1
<1>3. /\ pc = [r \in Requests |-> "new"]
      /\ DOMAIN in = Requests /\ DOMAIN loc = Requests
  BY DEF Init
<1>4. /\ DOMAIN db = {"user", "recent", "lock", "session", "factor", "newest", "codes",
                      "backup", "challenge", "stored", "cooling", "key"}
      /\ DOMAIN hist = {"given", "spent", "proven", "accepted", "locked", "lapsed",
                        "unmarked", "apart"}
  BY <1>1
<1>5. 0 \in Ids /\ 0 \notin Requests
  BY AccountAssumption DEF Ids, Requests
<1>6. AuthTyped
  BY <1>2, <1>3, <1>4 DEF AuthTyped, Sessions
<1>7. Alone("login", Logins) /\ Alone("refresh", Refreshes)
  BY <1>3 DEF Alone, Logins, Refreshes, Family
<1>8. ASSUME NEW r \in Requests
      PROVE  PastLock(r) /\ RowOf(r) /\ Found(r)
  BY <1>2, <1>3, <1>5, RequestIds DEF PastLock, RowOf, Found, Logins, Family
<1>9. LockHolds
  BY <1>2, AccountAssumption DEF LockHolds
<1>10. TokensUsable
  BY <1>2, <1>5 DEF TokensUsable
<1> QED
  BY <1>6, <1>7, <1>8, <1>9, <1>10 DEF AuthInv

(* Rows of sessions keep their tokens and are never deleted.               *)
RowsStay ==
  \A s \in Ids : /\ db'.session[s].token = db.session[s].token
                 /\ db'.session[s].state = "none" <=> db.session[s].state = "none"

Watched == Logins \cup Refreshes \cup {"new", "revoke"}

(* Most steps leave alone what the invariant watches: a request goes on to *)
(* a statement outside the two families, or time passes.                   *)
LEMMA AuthFrame ==
  ASSUME AuthInv, AuthTyped',
         \A q \in Requests :
           \/ pc'[q] = pc[q] /\ in'[q] = in[q] /\ loc'[q] = loc[q]
           \/ pc'[q] \notin Watched,
         db'.recent <= db.recent, db'.lock = db.lock, RowsStay,
         hist'.locked = hist.locked, hist'.lapsed = hist.lapsed,
         hist'.apart = hist.apart, hist'.given = hist.given, hist'.spent = hist.spent
  PROVE  AuthInv'
<1>0. /\ Logins = {"locked", "user", "has2FA", "create2FA", "session", "count", "record"}
      /\ Refreshes = {"valid", "active", "rotate"}
  BY DEF Logins, Refreshes, Family
<1>1. Alone("login", Logins)' /\ Alone("refresh", Refreshes)'
  BY <1>0 DEF AuthInv, Alone, Watched
<1>2. ASSUME NEW r \in Requests
      PROVE  (PastLock(r) /\ RowOf(r) /\ Found(r))'
  <2>1. r \in Ids /\ PastLock(r) /\ RowOf(r) /\ Found(r)
    BY RequestIds DEF AuthInv
  <2>2. CASE pc'[r] \notin Watched
    BY <1>0, <2>2 DEF Watched, PastLock, RowOf, Found
  <2>3. CASE pc'[r] = pc[r] /\ in'[r] = in[r] /\ loc'[r] = loc[r]
    <3>1. PastLock(r)'
      <4>1. loc[r].failed \in Nat /\ loc[r].failed >= db.recent
              => loc[r].failed >= db'.recent
        BY DEF AuthInv, AuthTyped
      <4> QED
        BY <1>0, <2>1, <2>3, <4>1 DEF PastLock
    <3>2. RowOf(r)'
      BY <2>1, <2>3 DEF RowOf, RowsStay
    <3>3. Found(r)'
      BY <2>1, <2>3 DEF Found, RowsStay
    <3> QED
      BY <3>1, <3>2, <3>3
  <2> QED
    BY <2>2, <2>3
<1>3. LockHolds'
  <2>1. db'.recent >= MaxLoginAttempts => db.recent >= MaxLoginAttempts
    BY AccountAssumption DEF AuthInv, AuthTyped
  <2> QED
    BY <2>1 DEF AuthInv, LockHolds
<1>4. TokensUsable'
  BY DEF AuthInv, TokensUsable, RowsStay
<1> QED
  BY <1>1, <1>2, <1>3, <1>4 DEF AuthInv

(* Where a request goes.                                                   *)
LEMMA Goes ==
  ASSUME AuthInv, NEW r \in Requests, NEW next, NEW value,
         Goto(r, next, value)
  PROVE  /\ pc'[r] = next
         /\ next # "done" => in'[r] = in[r] /\ loc'[r] = value
         /\ \A q \in Requests \ {r} :
              pc'[q] = pc[q] /\ in'[q] = in[q] /\ loc'[q] = loc[q]
         /\ DOMAIN pc' = Requests /\ DOMAIN in' = Requests
         /\ DOMAIN loc' = Requests
BY DEF AuthInv, AuthTyped, Goto

(* The tables and the history, as far as the invariant watches them.       *)
Beside ==
  /\ DOMAIN db' = DOMAIN db /\ DOMAIN hist' = DOMAIN hist
  /\ db'.recent = db.recent /\ db'.lock = db.lock
  /\ db'.session \in [Ids -> Sessions] /\ RowsStay
  /\ hist'.locked = hist.locked /\ hist'.lapsed = hist.lapsed
  /\ hist'.apart = hist.apart /\ hist'.given = hist.given /\ hist'.spent = hist.spent

LEMMA LeavesInv ==
  ASSUME AuthInv, Beside, NEW r \in Requests,
         NEW next, NEW value, Goto(r, next, value), next \notin Watched
  PROVE  AuthInv'
<1>1. AuthTyped'
  BY Goes DEF AuthInv, AuthTyped, Beside
<1>2. \A q \in Requests :
        \/ pc'[q] = pc[q] /\ in'[q] = in[q] /\ loc'[q] = loc[q]
        \/ pc'[q] \notin Watched
  BY Goes
<1>3. db'.recent <= db.recent
  BY DEF Beside, AuthInv, AuthTyped
<1> QED
  BY <1>1, <1>2, <1>3, AuthFrame DEF Beside

(* Statements that only read.                                              *)
LEMMA ReadBeside ==
  ASSUME AuthInv, UNCHANGED <<db, hist>>
  PROVE  Beside
BY DEF AuthInv, AuthTyped, Beside, RowsStay

LEMMA ReadsInv ==
  ASSUME AuthInv, NEW r \in Requests,
         NEW next, NEW value, Read(r, next, value), next \notin Watched
  PROVE  AuthInv'
BY ReadBeside, LeavesInv DEF Read

(* Statements that write other tables.                                     *)
LEMMA TablesBeside ==
  ASSUME AuthInv, DOMAIN db' = DOMAIN db, UNCHANGED hist,
         db'.recent = db.recent, db'.lock = db.lock, db'.session = db.session
  PROVE  Beside
BY DEF AuthInv, AuthTyped, Beside, RowsStay

LEMMA WatchedIs ==
  Watched = {"locked", "user", "has2FA", "create2FA", "session", "count", "record",
             "valid", "active", "rotate", "new", "revoke"}
BY DEF Watched, Logins, Refreshes, Family

LEMMA QuietStatements ==
  ASSUME AuthInv, NEW r \in Requests,
         \/ UserExists(r) \/ GetPassword(r)
         \/ GetResetUser(r) \/ CanRequestReset(r)
         \/ VerifyEmail(r) \/ ResetPassword(r)
         \/ Check2FA(r) \/ Get2FASession(r) \/ Get2FAMethod(r)
         \/ GetHash(r)
  PROVE  AuthInv'
<1>1. PICK next \in {"done", "create", "change", "cooldown", "reset", "code", "upsert",
                     "method", "logincode", "verified", "backupcode", "disable"} :
        Branch(r, next)
  BY Zenon DEF UserExists, GetPassword, GetResetUser, CanRequestReset,
         VerifyEmail, ResetPassword, NoSuchToken, Check2FA,
         Get2FASession, Get2FAMethod, GetHash
<1> QED
  BY <1>1, WatchedIs, ReadsInv DEF Branch

LEMMA WritingStatements ==
  ASSUME AuthInv, NEW r \in Requests,
         \/ CreateUser(r) \/ Create2FASession(r) \/ ChangePassword(r)
         \/ StoreResetToken(r) \/ ResendVerification(r)
         \/ StoreCode(r) \/ StoreMethod(r) \/ MarkCode(r)
         \/ GenerateBackupCodes(r) \/ EnableMethod(r)
         \/ DisableMethods(r) \/ DropBackupCodes(r)
         \/ CreateAPIKey(r) \/ RevokeAPIKey(r)
  PROVE  AuthInv'
<1>1. DOMAIN db = {"user", "recent", "lock", "session", "factor", "newest", "codes",
                   "backup", "challenge", "stored", "cooling", "key"}
  BY DEF AuthInv, AuthTyped
<1>2. ASSUME NEW next, NEW tables, Write(r, next, tables, hist), next \notin Watched,
             DOMAIN tables = DOMAIN db, tables.recent = db.recent, tables.lock = db.lock,
             tables.session = db.session
      PROVE  AuthInv'
  BY <1>2, TablesBeside, LeavesInv DEF Write
<1>3. CASE CreateUser(r)
  <2>1. CASE Branch(r, "done")
    BY <2>1, WatchedIs, ReadsInv DEF Branch
  <2>2. CASE ~db.user.exists
    <3> DEFINE new == [exists |-> TRUE, active |-> TRUE,
                       verified |-> ~RequireVerified, pwd |-> in[r]]
               tables == [db EXCEPT !.user = new,
                            !.stored = IF RequireVerified THEN @ \cup {<<r, r>>} ELSE @]
    <3>1. Write(r, "done", tables, hist)
      BY <1>3, <2>2 DEF CreateUser
    <3> HIDE DEF new
    <3>2. /\ DOMAIN tables = DOMAIN db /\ tables.recent = db.recent
          /\ tables.lock = db.lock /\ tables.session = db.session
      BY <1>1
    <3> HIDE DEF tables
    <3> QED
      BY <1>2, <3>1, <3>2, WatchedIs
  <2> QED
    BY <1>3, <2>1, <2>2 DEF CreateUser
<1>4. CASE Create2FASession(r)
  BY <1>1, <1>2, <1>4, WatchedIs DEF Create2FASession
<1>5. CASE ChangePassword(r)
  BY <1>1, <1>2, <1>5, WatchedIs DEF ChangePassword
<1>6. CASE StoreResetToken(r)
  <2> DEFINE tables == [db EXCEPT !.stored = @ \cup {HashToken(r, r)},
                                  !.cooling = TRUE]
  <2>1. Write(r, "done", tables, hist)
    BY <1>6 DEF StoreResetToken
  <2>2. /\ DOMAIN tables = DOMAIN db /\ tables.recent = db.recent
        /\ tables.lock = db.lock /\ tables.session = db.session
    BY <1>1
  <2> HIDE DEF tables
  <2> QED
    BY <1>2, <2>1, <2>2, WatchedIs
<1>7. CASE ResendVerification(r)
  <2>1. CASE Branch(r, "done")
    BY <2>1, WatchedIs, ReadsInv DEF Branch
  <2>2. CASE ~Branch(r, "done")
    BY <1>1, <1>2, <1>7, <2>2, WatchedIs DEF ResendVerification
  <2> QED
    BY <2>1, <2>2
<1>8. CASE StoreCode(r)
  BY <1>1, <1>2, <1>8, WatchedIs DEF StoreCode
<1>9. CASE StoreMethod(r)
  <2> DEFINE m == in[r]
             tables == [db EXCEPT
               !.factor[m] = [state  |-> IF @.state = "none" THEN "pending" ELSE @.state,
                              secret |-> IF m = "totp" THEN r ELSE @.secret],
               !.newest = Append(Remove(@, m), m)]
  <2>1. Write(r, "done", tables, hist)
    BY <1>9, Zenon DEF StoreMethod
  <2> HIDE DEF m
  <2>2. /\ DOMAIN tables = DOMAIN db /\ tables.recent = db.recent
        /\ tables.lock = db.lock /\ tables.session = db.session
    BY <1>1
  <2> HIDE DEF tables
  <2> QED
    BY <1>2, <2>1, <2>2, WatchedIs
<1>10. CASE MarkCode(r)
  <2>1. AfterCode(r) \notin Watched
    BY WatchedIs DEF AfterCode
  <2> QED
    BY <1>1, <1>2, <1>10, <2>1 DEF MarkCode
<1>11. CASE GenerateBackupCodes(r)
  BY <1>1, <1>2, <1>11, WatchedIs DEF GenerateBackupCodes
<1>12. CASE EnableMethod(r)
  BY <1>1, <1>2, <1>12, WatchedIs DEF EnableMethod
<1>13. CASE DisableMethods(r)
  <2> DEFINE tables == [db EXCEPT !.factor = [m \in Methods |->
               IF m \in Enabled THEN [@[m] EXCEPT !.state = "pending"] ELSE @[m]]]
  <2>1. Write(r, "drop", tables, hist)
    BY <1>13, Zenon DEF DisableMethods
  <2>2. /\ DOMAIN tables = DOMAIN db /\ tables.recent = db.recent
        /\ tables.lock = db.lock /\ tables.session = db.session
    BY <1>1
  <2> HIDE DEF tables
  <2> QED
    BY <1>2, <2>1, <2>2, WatchedIs
<1>14. CASE DropBackupCodes(r)
  BY <1>1, <1>2, <1>14, WatchedIs DEF DropBackupCodes
<1>15. CASE CreateAPIKey(r)
  BY <1>1, <1>2, <1>15, WatchedIs DEF CreateAPIKey
<1>16. CASE RevokeAPIKey(r)
  BY <1>1, <1>2, <1>16, WatchedIs DEF RevokeAPIKey
<1> QED
  BY <1>3, <1>4, <1>5, <1>6, <1>7, <1>8, <1>9, <1>10, <1>11, <1>12, <1>13, <1>14,
     <1>15, <1>16

(* Statements that only add to the rest of the history.                    *)
LEMMA HistoryBeside ==
  ASSUME AuthInv, DOMAIN hist' = DOMAIN hist, DOMAIN db' = DOMAIN db,
         db'.recent = db.recent, db'.lock = db.lock, db'.session = db.session,
         hist'.locked = hist.locked, hist'.lapsed = hist.lapsed,
         hist'.apart = hist.apart, hist'.given = hist.given, hist'.spent = hist.spent
  PROVE  Beside
BY DEF AuthInv, AuthTyped, Beside, RowsStay

LEMMA FactorStatements ==
  ASSUME AuthInv, NEW r \in Requests,
         \/ GetPending2FA(r) \/ CheckCode(r) \/ VerifyBackupCode(r)
         \/ MarkBackupCode(r) \/ Mark2FASession(r) \/ StoreFails(r)
  PROVE  AuthInv'
<1>1. /\ DOMAIN db = {"user", "recent", "lock", "session", "factor", "newest", "codes",
                      "backup", "challenge", "stored", "cooling", "key"}
      /\ DOMAIN hist = {"given", "spent", "proven", "accepted", "locked", "lapsed",
                        "unmarked", "apart"}
  BY DEF AuthInv, AuthTyped
<1>2. ASSUME NEW next \in {"done", "markcode", "setupcode", "backups", "markbackup",
                           "verified"},
             NEW value, Goto(r, next, value), Beside
      PROVE  AuthInv'
  BY <1>2, WatchedIs, LeavesInv
<1>3. ASSUME NEW next \in {"done", "markcode", "setupcode", "backups", "markbackup",
                           "verified"},
             NEW value, Read(r, next, value)
      PROVE  AuthInv'
  BY <1>2, <1>3, ReadBeside DEF Read
<1>4. ASSUME NEW id, hist' = Accept(hist, id), DOMAIN db' = DOMAIN db,
             db'.recent = db.recent, db'.lock = db.lock, db'.session = db.session
      PROVE  Beside
  <2>1. /\ DOMAIN hist' = DOMAIN hist /\ hist'.locked = hist.locked
        /\ hist'.lapsed = hist.lapsed /\ hist'.apart = hist.apart
        /\ hist'.given = hist.given /\ hist'.spent = hist.spent
    BY <1>1, <1>4 DEF Accept
  <2> QED
    BY <1>4, <2>1, HistoryBeside
<1>5. CASE GetPending2FA(r)
  <2> DEFINE pending == SelectSeq(db.newest,
                          LAMBDA m : db.factor[m].state = "pending")
             proven == /\ \E m : Goto(r, "backups", m)
                       /\ hist' = [hist EXCEPT !.proven = @ \cup {in[r].code}]
                       /\ UNCHANGED db
  <2>1. \/ Branch(r, "done")
        \/ \E m : Read(r, "setupcode", m)
        \/ proven
    BY <1>5, Zenon DEF GetPending2FA
  <2>2. CASE proven
    <3>1. Beside
      BY <1>1, <2>2, HistoryBeside
    <3> QED
      BY <1>2, <2>2, <3>1
  <2> QED
    BY <1>3, <2>1, <2>2 DEF Branch
<1>6. CASE CheckCode(r)
  <2>1. \/ Branch(r, "done")
        \/ Write(r, "markcode", db, Accept(hist, in[r].code))
    BY <1>6, Zenon DEF CheckCode
  <2> QED
    BY <1>2, <1>3, <1>4, <2>1 DEF Branch, Write
<1>7. CASE VerifyBackupCode(r)
  <2>1. \/ Branch(r, "done")
        \/ Write(r, "markbackup", db, Accept(hist, in[r].code))
    BY <1>7, Zenon DEF VerifyBackupCode
  <2> QED
    BY <1>2, <1>3, <1>4, <2>1 DEF Branch, Write
<1>8. CASE MarkBackupCode(r)
  <2>1. /\ DOMAIN db' = DOMAIN db /\ db'.recent = db.recent /\ db'.lock = db.lock
        /\ db'.session = db.session /\ hist' = hist
    BY <1>1, <1>8 DEF MarkBackupCode, Write
  <2> QED
    BY <1>2, <1>8, <2>1, TablesBeside DEF MarkBackupCode, Write
<1>9. CASE Mark2FASession(r)
  <2>1. /\ DOMAIN db' = DOMAIN db /\ db'.recent = db.recent /\ db'.lock = db.lock
        /\ db'.session = db.session
    BY <1>1, <1>9 DEF Mark2FASession, Write
  <2> QED
    BY <1>2, <1>4, <1>9, <2>1 DEF Mark2FASession, Write
<1>10. CASE StoreFails(r)
  <2>1. PICK next \in {"done", "backups", "verified"} : Goto(r, next, loc[r])
    BY <1>10, Zenon DEF StoreFails, AfterCode
  <2>2. /\ DOMAIN hist' = DOMAIN hist /\ hist'.locked = hist.locked
        /\ hist'.lapsed = hist.lapsed /\ hist'.apart = hist.apart
        /\ hist'.given = hist.given /\ hist'.spent = hist.spent /\ db' = db
    BY <1>1, <1>10 DEF StoreFails
  <2> QED
    BY <1>2, <2>1, <2>2, HistoryBeside
<1> QED
  BY <1>5, <1>6, <1>7, <1>8, <1>9, <1>10

(* Sessions that are revoked keep their token.                             *)
LEMMA RevokedBeside ==
  ASSUME AuthInv, NEW rows, rows \cap Ids \subseteq
           {s \in Ids : db.session[s].state # "none"},
         db' = Revoked(rows), UNCHANGED hist
  PROVE  Beside
<1>1. /\ DOMAIN db = {"user", "recent", "lock", "session", "factor", "newest", "codes",
                      "backup", "challenge", "stored", "cooling", "key"}
      /\ db.session \in [Ids -> Sessions]
  BY DEF AuthInv, AuthTyped
<1>2. /\ DOMAIN db' = DOMAIN db /\ db'.recent = db.recent /\ db'.lock = db.lock
      /\ db'.session = [s \in Ids |->
           IF s \in rows THEN [db.session[s] EXCEPT !.state = "revoked"]
           ELSE db.session[s]]
  BY <1>1 DEF Revoked, Set
<1>3. db'.session \in [Ids -> Sessions] /\ RowsStay
  BY <1>1, <1>2 DEF RowsStay, Sessions
<1> QED
  BY <1>2, <1>3 DEF Beside

LEMMA EndStatements ==
  ASSUME AuthInv, NEW r \in Requests,
         Logout(r) \/ RevokeSession(r)
  PROVE  AuthInv'
<1>1. PICK rows : /\ rows \cap Ids \subseteq
                        {s \in Ids : db.session[s].state # "none"}
                  /\ Write(r, "done", Revoked(rows), hist)
  <2>1. CASE Logout(r)
    BY <2>1, Zenon DEF Logout, Rows
  <2>2. CASE RevokeSession(r)
    <3>1. db.session[in[r]].state # "none"
      BY <2>2 DEF AuthInv, RowOf, RevokeSession, At
    <3> QED
      BY <2>2, <3>1 DEF RevokeSession
  <2> QED
    BY <2>1, <2>2
<1>2. Beside
  BY <1>1, RevokedBeside DEF Write
<1> QED
  BY <1>1, <1>2, WatchedIs, LeavesInv DEF Write

(* Time passes, or an administrator deactivates the user.                  *)
LEMMA TimeInv ==
  ASSUME AuthInv, LockExpires \/ Expiry \/ Deactivate
  PROVE  AuthInv'
<1>1. /\ DOMAIN db = {"user", "recent", "lock", "session", "factor", "newest", "codes",
                      "backup", "challenge", "stored", "cooling", "key"}
      /\ DOMAIN hist = {"given", "spent", "proven", "accepted", "locked", "lapsed",
                        "unmarked", "apart"}
      /\ db.session \in [Ids -> Sessions] /\ db.recent \in Nat
  BY DEF AuthInv, AuthTyped
<1>2. UNCHANGED <<pc, in, loc>>
  BY DEF LockExpires, Expiry, Expires, Deactivate
<1>3. ASSUME DOMAIN db' = DOMAIN db, hist' = hist, db'.lock = db.lock,
             db'.recent \in Nat, db'.recent <= db.recent,
             db'.session \in [Ids -> Sessions], RowsStay
      PROVE  AuthInv'
  <2>1. AuthTyped'
    BY <1>2, <1>3 DEF AuthInv, AuthTyped
  <2> QED
    BY <1>2, <1>3, <2>1, AuthFrame
<1>4. db.recent <= db.recent /\ (db'.session = db.session => RowsStay)
  BY <1>1 DEF RowsStay
<1>5. CASE Deactivate
  BY <1>1, <1>3, <1>4, <1>5 DEF Deactivate
<1>6. CASE Expiry
  <2>1. CASE db.recent > 0 /\ Expires([db EXCEPT !.recent = @ - 1])
    <3>1. db' = [db EXCEPT !.recent = db.recent - 1] /\ hist' = hist
      BY <1>6, <2>1 DEF Expires, Expiry
    <3>2. db.recent - 1 \in Nat /\ db.recent - 1 <= db.recent
      BY <1>1, <2>1
    <3> QED
      BY <1>1, <1>3, <1>4, <3>1, <3>2
  <2>2. CASE Expires([db EXCEPT !.cooling = FALSE])
    BY <1>1, <1>3, <1>4, <1>6, <2>2 DEF Expires, Expiry
  <2>3. CASE \E s \in Ids : /\ db.session[s].state = "live"
                            /\ Expires([db EXCEPT !.session[s].state = "expired"])
    <3>1. PICK s \in Ids :
            /\ db.session[s].state = "live"
            /\ db' = [db EXCEPT !.session[s].state = "expired"] /\ hist' = hist
      BY <1>6, <2>3 DEF Expires, Expiry
    <3>2. /\ DOMAIN db' = DOMAIN db /\ db'.recent = db.recent /\ db'.lock = db.lock
          /\ db'.session = [db.session EXCEPT ![s].state = "expired"]
      BY <1>1, <3>1
    <3>3. db'.session \in [Ids -> Sessions] /\ RowsStay
      BY <1>1, <3>1, <3>2 DEF RowsStay, Sessions
    <3> QED
      BY <1>1, <1>3, <1>4, <3>1, <3>2, <3>3
  <2>4. CASE \E c \in Requests : Expires([db EXCEPT !.challenge[c] = "expired"])
    BY <1>1, <1>3, <1>4, <1>6, <2>4 DEF Expires, Expiry
  <2>5. CASE \E k \in DOMAIN db.codes :
                Expires([db EXCEPT !.codes[k].state = "expired"])
    BY <1>1, <1>3, <1>4, <1>6, <2>5 DEF Expires, Expiry
  <2> QED
    BY <1>6, <2>1, <2>2, <2>3, <2>4, <2>5 DEF Expiry
<1>7. CASE LockExpires
  <2>1. /\ db' = [db EXCEPT !.lock = FALSE]
        /\ hist' = [hist EXCEPT !.locked = FALSE, !.lapsed = TRUE]
    BY <1>7 DEF LockExpires, Expires
  <2>2. /\ DOMAIN db' = DOMAIN db /\ DOMAIN hist' = DOMAIN hist
        /\ db'.recent = db.recent /\ db'.session = db.session
        /\ ~hist'.locked /\ hist'.lapsed /\ hist'.apart = hist.apart
        /\ hist'.given = hist.given /\ hist'.spent = hist.spent
    BY <1>1, <2>1
  <2> QED
    BY <1>2, <2>2 DEF AuthInv, AuthTyped, Alone, PastLock, RowOf, Found,
                      LockHolds, TokensUsable
<1> QED
  BY <1>5, <1>6, <1>7

(* The families: a request enters one only when it begins.                 *)
LEMMA FamiliesAre ==
  /\ Logins = {"locked", "user", "has2FA", "create2FA", "session", "count", "record"}
  /\ Refreshes = {"valid", "active", "rotate"}
BY DEF Logins, Refreshes, Family

LEMMA AloneKept ==
  ASSUME AuthInv, NEW r \in Requests, NEW next, NEW value, Goto(r, next, value),
         hist'.apart = hist.apart,
         next \in Logins => pc[r] \in Logins,
         next \in Refreshes => pc[r] \in Refreshes
  PROVE  Alone("login", Logins)' /\ Alone("refresh", Refreshes)'
<1>1. \A q \in Requests : /\ pc'[q] \in Logins => pc[q] \in Logins
                          /\ pc'[q] \in Refreshes => pc[q] \in Refreshes
  BY Goes
<1>2. Logins' = Logins /\ Refreshes' = Refreshes
  BY DEF Logins, Refreshes, Family
<1> QED
  BY <1>1, <1>2 DEF AuthInv, Alone

(* A step inside a family that only reads.                                 *)
LEMMA ChainInv ==
  ASSUME AuthInv, NEW r \in Requests,
         NEW next, next \notin {"new", "revoke"}, NEW value, Read(r, next, value),
         next \in Logins => pc[r] \in Logins,
         next \in Refreshes => pc[r] \in Refreshes,
         PastLock(r)', RowOf(r)', Found(r)'
  PROVE  AuthInv'
<1>1. Beside /\ Goto(r, next, value) /\ db' = db /\ hist' = hist
  BY ReadBeside DEF Read
<1>2. AuthTyped'
  BY <1>1, Goes DEF AuthInv, AuthTyped, Beside
<1>3. Alone("login", Logins)' /\ Alone("refresh", Refreshes)'
  BY <1>1, AloneKept
<1>4. ASSUME NEW q \in Requests
      PROVE  (PastLock(q) /\ RowOf(q) /\ Found(q))'
  <2>1. CASE q = r
    BY <2>1
  <2>2. CASE q # r
    <3>1. pc'[q] = pc[q] /\ in'[q] = in[q] /\ loc'[q] = loc[q]
      BY <1>1, <2>2, Goes
    <3> QED
      BY <1>1, <3>1 DEF AuthInv, PastLock, RowOf, Found
  <2> QED
    BY <2>1, <2>2
<1>5. LockHolds' /\ TokensUsable'
  BY <1>1 DEF AuthInv, LockHolds, TokensUsable
<1> QED
  BY <1>2, <1>3, <1>4, <1>5 DEF AuthInv

LEMMA LoginReads ==
  ASSUME AuthInv, NEW r \in Requests,
         \/ IsAccountLocked(r) \/ GetUser(r) \/ Has2FAEnabled(r)
         \/ CountFailed(r)
  PROVE  AuthInv'
<1>1. /\ PastLock(r) /\ RowOf(r) /\ db.recent \in Nat
      /\ "login" \in hist.apart /\ hist.locked => db.lock
  BY DEF AuthInv, AuthTyped, LockHolds
<1>2. ASSUME NEW next \in {"done", "user", "count", "has2FA", "create2FA", "session",
                           "record"},
             NEW value, Read(r, next, value), pc[r] \in Logins,
             next \in Logins /\ pc[r] = "locked" => ~db.lock,
             next \in {"user", "has2FA", "session"} =>
               pc[r] \in {"locked", "user", "has2FA"},
             next = "record" => value.failed = db.recent
      PROVE  AuthInv'
  <2>1. /\ pc'[r] = next /\ (next # "done" => loc'[r] = value)
        /\ db' = db /\ hist' = hist
    BY <1>2, Goes DEF Read
  <2>2. PastLock(r)'
    BY <1>1, <1>2, <2>1, FamiliesAre DEF PastLock
  <2>3. RowOf(r)' /\ Found(r)'
    BY <1>1, <1>2, <2>1 DEF RowOf, Found
  <2> QED
    BY <1>2, <2>2, <2>3, FamiliesAre, ChainInv
<1>3. CASE IsAccountLocked(r)
  BY <1>2, <1>3, FamiliesAre DEF IsAccountLocked, At, Branch
<1>4. CASE GetUser(r)
  BY <1>2, <1>4, FamiliesAre DEF GetUser, At, Branch
<1>5. CASE Has2FAEnabled(r)
  BY <1>2, <1>5, FamiliesAre DEF Has2FAEnabled, At, Branch
<1>6. CASE CountFailed(r)
  BY <1>2, <1>6, FamiliesAre DEF CountFailed, At
<1> QED
  BY <1>3, <1>4, <1>5, <1>6

(* A new session takes a row that nobody has.                              *)
LEMMA CreateSessionInv ==
  ASSUME AuthInv, NEW r \in Requests, CreateSession(r)
  PROVE  AuthInv'
<1> DEFINE new == [token |-> r, state |-> "live"]
<1>1. /\ DOMAIN db = {"user", "recent", "lock", "session", "factor", "newest", "codes",
                      "backup", "challenge", "stored", "cooling", "key"}
      /\ DOMAIN hist = {"given", "spent", "proven", "accepted", "locked", "lapsed",
                        "unmarked", "apart"}
      /\ db.session \in [Ids -> Sessions] /\ r \in Ids
  BY RequestIds DEF AuthInv, AuthTyped
<1>2. /\ pc[r] = "session" /\ Goto(r, "count", loc[r])
      /\ db' = [db EXCEPT !.session[r] = new]
      /\ hist' = [hist EXCEPT !.given = @ \cup {r}]
  BY DEF CreateSession, At, Write
<1>3. /\ DOMAIN db' = DOMAIN db /\ DOMAIN hist' = DOMAIN hist
      /\ db'.recent = db.recent /\ db'.lock = db.lock
      /\ db'.session = [db.session EXCEPT ![r] = new]
      /\ hist'.given = hist.given \cup {r} /\ hist'.spent = hist.spent
      /\ hist'.locked = hist.locked /\ hist'.lapsed = hist.lapsed
      /\ hist'.apart = hist.apart
  BY <1>1, <1>2
<1>4. /\ db.session[r].state = "none" /\ db'.session[r] = new
      /\ \A s \in Ids \ {r} : db'.session[s] = db.session[s]
      /\ db'.session \in [Ids -> Sessions]
  BY <1>1, <1>2, <1>3 DEF AuthInv, RowOf, Sessions
<1>5. AuthTyped'
  BY <1>2, <1>3, <1>4, Goes DEF AuthInv, AuthTyped
<1>6. Alone("login", Logins)' /\ Alone("refresh", Refreshes)'
  BY <1>2, <1>3, AloneKept, FamiliesAre
<1>7. ASSUME NEW q \in Requests
      PROVE  (PastLock(q) /\ RowOf(q) /\ Found(q))'
  <2>1. PastLock(q) /\ RowOf(q) /\ Found(q) /\ q \in Ids
    BY RequestIds DEF AuthInv
  <2>2. CASE q = r
    <3>1. pc'[q] = "count"
      BY <1>2, <2>2, Goes
    <3> QED
      BY <1>2, <1>3, <2>1, <2>2, <3>1, FamiliesAre DEF PastLock, RowOf, Found
  <2>3. CASE q # r
    <3>1. pc'[q] = pc[q] /\ in'[q] = in[q] /\ loc'[q] = loc[q]
      BY <1>2, <2>3, Goes
    <3>2. PastLock(q)'
      BY <1>3, <2>1, <3>1 DEF PastLock
    <3>3. RowOf(q)'
      BY <1>4, <2>1, <2>3, <3>1 DEF RowOf
    <3>4. Found(q)'
      BY <1>3, <1>4, <2>1, <3>1 DEF Found
    <3> QED
      BY <3>2, <3>3, <3>4
  <2> QED
    BY <2>2, <2>3
<1>8. LockHolds'
  BY <1>3 DEF AuthInv, LockHolds
<1>9. TokensUsable'
  BY <1>1, <1>3, <1>4 DEF AuthInv, TokensUsable
<1> QED
  BY <1>5, <1>6, <1>7, <1>8, <1>9 DEF AuthInv

(* The INSERT that may lock the account: nothing was inserted since the    *)
(* failures were counted.                                                  *)
LEMMA InsertAttemptInv ==
  ASSUME AuthInv, NEW r \in Requests, InsertAttempt(r)
  PROVE  AuthInv'
<1> DEFINE locks == Locks(loc[r])
           n == IF loc[r].ok THEN db.recent ELSE db.recent + 1
<1>1. /\ DOMAIN db = {"user", "recent", "lock", "session", "factor", "newest", "codes",
                      "backup", "challenge", "stored", "cooling", "key"}
      /\ DOMAIN hist = {"given", "spent", "proven", "accepted", "locked", "lapsed",
                        "unmarked", "apart"}
      /\ db.recent \in Nat /\ MaxLoginAttempts \in Nat
  BY AccountAssumption DEF AuthInv, AuthTyped
<1>2. /\ pc[r] = "record" /\ Goto(r, "done", loc[r])
      /\ db' = [db EXCEPT !.recent = n, !.lock = locks]
      /\ hist' = [hist EXCEPT !.locked = @ \/ locks]
  BY DEF InsertAttempt, At, Write
<1>3. n \in Nat
  BY <1>1
<1> HIDE DEF n, locks
<1>4. /\ DOMAIN db' = DOMAIN db /\ DOMAIN hist' = DOMAIN hist
      /\ db'.recent = n /\ db'.lock = locks /\ db'.session = db.session
      /\ hist'.given = hist.given /\ hist'.spent = hist.spent
      /\ hist'.locked = (hist.locked \/ locks) /\ hist'.lapsed = hist.lapsed
      /\ hist'.apart = hist.apart
  BY <1>1, <1>2
<1>5. AuthTyped'
  BY <1>2, <1>3, <1>4, Goes DEF AuthInv, AuthTyped
<1>6. Alone("login", Logins)' /\ Alone("refresh", Refreshes)'
  BY <1>2, <1>4, AloneKept, FamiliesAre
<1>7. ASSUME NEW q \in Requests
      PROVE  (PastLock(q) /\ RowOf(q) /\ Found(q))'
  <2>1. PastLock(q) /\ RowOf(q) /\ Found(q)
    BY DEF AuthInv
  <2>2. CASE q = r
    <3>1. pc'[q] = "done"
      BY <1>2, <2>2, Goes
    <3> QED
      BY <3>1, FamiliesAre DEF PastLock, RowOf, Found
  <2>3. CASE q # r
    <3>1. pc'[q] = pc[q] /\ in'[q] = in[q] /\ loc'[q] = loc[q]
      BY <1>2, <2>3, Goes
    <3>2. "login" \in hist.apart => pc[q] \notin Logins
      BY <1>2, <2>3, FamiliesAre DEF AuthInv, Alone
    <3>3. PastLock(q)'
      BY <1>4, <3>1, <3>2, FamiliesAre DEF PastLock
    <3>4. RowOf(q)' /\ Found(q)'
      BY <1>4, <2>1, <3>1 DEF RowOf, Found
    <3> QED
      BY <3>3, <3>4
  <2> QED
    BY <2>2, <2>3
<1>8. LockHolds'
  <2> SUFFICES ASSUME "login" \in hist.apart
               PROVE  /\ hist'.locked => db'.lock
                      /\ db'.recent >= MaxLoginAttempts => hist'.locked \/ hist'.lapsed
    BY <1>4 DEF LockHolds
  <2>1. /\ ~hist.locked /\ loc[r].failed \in Nat /\ loc[r].failed >= db.recent
        /\ db.recent >= MaxLoginAttempts => hist.locked \/ hist.lapsed
    BY <1>2, FamiliesAre DEF AuthInv, PastLock, LockHolds
  <2>2. hist'.locked => db'.lock
    BY <1>4, <2>1
  <2>3. CASE loc[r].ok
    BY <1>4, <2>1, <2>3 DEF n
  <2>4. CASE ~loc[r].ok
    <3>1. n = db.recent + 1 /\ (loc[r].failed >= MaxLoginAttempts - 1 => locks)
      BY <2>4 DEF n, locks, Locks
    <3>2. n >= MaxLoginAttempts => loc[r].failed >= MaxLoginAttempts - 1
      BY <1>1, <2>1, <3>1
    <3>3. n >= MaxLoginAttempts => locks
      BY <3>1, <3>2
    <3> QED
      BY <1>4, <2>2, <3>3
  <2> QED
    BY <2>2, <2>3, <2>4
<1>9. TokensUsable'
  BY <1>4 DEF AuthInv, TokensUsable
<1> QED
  BY <1>5, <1>6, <1>7, <1>8, <1>9 DEF AuthInv

(* Refresh: the reads.                                                     *)
LEMMA RefreshReads ==
  ASSUME AuthInv, NEW r \in Requests,
         IsSessionValid(r) \/ IsActive(r)
  PROVE  AuthInv'
<1>1. PICK next \in {"done", "active", "rotate"} :
        /\ Read(r, next, loc[r]) /\ pc[r] \in {"valid", "active"}
        /\ next # "done" /\ pc[r] = "valid" =>
             \E s \in Ids : db.session[s] = [token |-> in[r], state |-> "live"]
  BY DEF IsSessionValid, IsActive, At, Branch
<1>2. /\ pc'[r] = next /\ (next # "done" => in'[r] = in[r])
      /\ db' = db /\ hist' = hist
  BY <1>1, Goes DEF Read
<1>3. PastLock(r)' /\ RowOf(r)'
  BY <1>1, <1>2, FamiliesAre DEF PastLock, RowOf
<1>4. Found(r)'
  <2>1. next # "done" /\ "refresh" \in hist.apart =>
          \E s \in Ids : db.session[s].token = in[r] /\ db.session[s].state # "none"
    BY <1>1 DEF AuthInv, Found
  <2> QED
    BY <1>2, <2>1 DEF Found
<1>5. next \notin Logins /\ pc[r] \in Refreshes /\ next \notin {"new", "revoke"}
  BY <1>1, FamiliesAre
<1> QED
  BY <1>1, <1>3, <1>4, <1>5, ChainInv

(* The new token takes the place of the one that was sent.                 *)
LEMMA UpdateSessionInv ==
  ASSUME AuthInv, NEW r \in Requests, UpdateSession(r)
  PROVE  AuthInv'
<1> DEFINE rows == Rows(in[r])
<1>1. /\ DOMAIN db = {"user", "recent", "lock", "session", "factor", "newest", "codes",
                      "backup", "challenge", "stored", "cooling", "key"}
      /\ DOMAIN hist = {"given", "spent", "proven", "accepted", "locked", "lapsed",
                        "unmarked", "apart"}
      /\ db.session \in [Ids -> Sessions] /\ r \in Ids
  BY RequestIds DEF AuthInv, AuthTyped
<1>2. /\ pc[r] = "rotate" /\ Goto(r, "done", loc[r])
      /\ db' = [db EXCEPT !.session =
                   Set(rows, [s \in Ids |-> [db.session[s] EXCEPT !.token = r]])]
      /\ hist' = [hist EXCEPT !.given = @ \cup {r}, !.spent = @ \cup {in[r]}]
  BY DEF UpdateSession, At, Write
<1>3. /\ DOMAIN db' = DOMAIN db /\ DOMAIN hist' = DOMAIN hist
      /\ db'.recent = db.recent /\ db'.lock = db.lock
      /\ db'.session =
           Set(rows, [s \in Ids |-> [db.session[s] EXCEPT !.token = r]])
      /\ hist'.given = hist.given \cup {r} /\ hist'.spent = hist.spent \cup {in[r]}
      /\ hist'.locked = hist.locked /\ hist'.lapsed = hist.lapsed
      /\ hist'.apart = hist.apart
  BY <1>1, <1>2
<1>4. /\ \A s \in Ids :
           IF db.session[s].token = in[r] /\ db.session[s].state # "none"
           THEN db'.session[s].token = r
           ELSE db'.session[s] = db.session[s]
      /\ \A s \in Ids : db'.session[s].state = db.session[s].state
      /\ db'.session \in [Ids -> Sessions]
  BY <1>1, <1>3 DEF Set, Rows, Sessions
<1>5. AuthTyped'
  BY <1>2, <1>3, <1>4, Goes DEF AuthInv, AuthTyped
<1>6. Alone("login", Logins)' /\ Alone("refresh", Refreshes)'
  BY <1>2, <1>3, AloneKept, FamiliesAre
<1>7. ASSUME NEW q \in Requests
      PROVE  (PastLock(q) /\ RowOf(q) /\ Found(q))'
  <2>1. PastLock(q) /\ RowOf(q) /\ q \in Ids
    BY RequestIds DEF AuthInv
  <2>2. CASE q = r
    <3>1. pc'[q] = "done"
      BY <1>2, <2>2, Goes
    <3> QED
      BY <3>1, FamiliesAre DEF PastLock, RowOf, Found
  <2>3. CASE q # r
    <3>1. pc'[q] = pc[q] /\ in'[q] = in[q] /\ loc'[q] = loc[q]
      BY <1>2, <2>3, Goes
    <3>2. "refresh" \in hist.apart => pc[q] \notin Refreshes
      BY <1>2, <2>3, FamiliesAre DEF AuthInv, Alone
    <3>3. PastLock(q)'
      BY <1>3, <2>1, <3>1 DEF PastLock
    <3>4. RowOf(q)'
      BY <1>4, <2>1, <3>1 DEF RowOf
    <3>5. Found(q)'
      BY <1>3, <3>1, <3>2, FamiliesAre DEF Found
    <3> QED
      BY <3>3, <3>4, <3>5
  <2> QED
    BY <2>2, <2>3
<1>8. LockHolds'
  BY <1>3 DEF AuthInv, LockHolds
<1>9. TokensUsable'
  <2> SUFFICES ASSUME "refresh" \in hist.apart, NEW t \in hist'.given \ hist'.spent
               PROVE  \E s \in Ids :
                        db'.session[s].token = t /\ db'.session[s].state # "none"
    BY <1>3 DEF TokensUsable
  <2>1. CASE t = r
    <3>1. PICK s \in Ids :
            db.session[s].token = in[r] /\ db.session[s].state # "none"
      BY <1>2 DEF AuthInv, Found
    <3>2. db'.session[s].token = r /\ db'.session[s].state # "none"
      BY <1>4, <3>1
    <3> QED
      BY <2>1, <3>2
  <2>2. CASE t # r
    <3>1. t \in hist.given \ hist.spent /\ t # in[r]
      BY <1>3, <2>2
    <3>2. PICK s \in Ids : db.session[s].token = t /\ db.session[s].state # "none"
      BY <3>1 DEF AuthInv, TokensUsable
    <3> QED
      BY <1>4, <3>1, <3>2
  <2> QED
    BY <2>1, <2>2
<1> QED
  BY <1>5, <1>6, <1>7, <1>8, <1>9 DEF AuthInv

(* A request begins: a family it enters while another member runs has      *)
(* overlapped from now on.                                                 *)
LEMMA BeginInv ==
  ASSUME AuthInv, NEW r \in Requests, NEW call, NEW argument,
         Begin(r, call, argument),
         call \notin (Logins \cup Refreshes \cup {"new"}) \ {"locked", "valid"},
         call = "revoke" => /\ argument \in Ids
                            /\ db.session[argument].state # "none"
  PROVE  AuthInv'
<1>1. /\ DOMAIN hist = {"given", "spent", "proven", "accepted", "locked", "lapsed",
                        "unmarked", "apart"}
      /\ DOMAIN pc = Requests /\ DOMAIN in = Requests
      /\ DOMAIN loc = Requests
  BY DEF AuthInv, AuthTyped
<1>2. /\ pc[r] = "new" /\ pc' = [pc EXCEPT ![r] = call]
      /\ in' = [in EXCEPT ![r] = argument] /\ UNCHANGED <<db, loc>>
      /\ hist' = [hist EXCEPT !.apart = {f \in @ : call \in Family[f] =>
                              \A q \in Requests : pc[q] \notin Family[f]}]
  BY DEF Begin, At
<1>3. /\ DOMAIN hist' = DOMAIN hist
      /\ hist'.given = hist.given /\ hist'.spent = hist.spent
      /\ hist'.locked = hist.locked /\ hist'.lapsed = hist.lapsed
      /\ hist'.apart = {f \in hist.apart : call \in Family[f] =>
                          \A q \in Requests : pc[q] \notin Family[f]}
  BY <1>1, <1>2
<1>4. /\ DOMAIN pc' = Requests /\ DOMAIN in' = Requests
      /\ pc'[r] = call /\ in'[r] = argument
      /\ \A q \in Requests \ {r} : pc'[q] = pc[q] /\ in'[q] = in[q]
      /\ loc' = loc /\ db' = db
  BY <1>1, <1>2
<1>5. AuthTyped'
  BY <1>3, <1>4 DEF AuthInv, AuthTyped
<1>7. Alone("login", Logins)' /\ Alone("refresh", Refreshes)'
  BY <1>2, <1>3, <1>4, FamiliesAre DEF AuthInv, Alone, Logins, Refreshes
<1>8. ASSUME NEW q \in Requests
      PROVE  (PastLock(q) /\ RowOf(q) /\ Found(q))'
  <2>1. PastLock(q) /\ RowOf(q) /\ Found(q)
    BY DEF AuthInv
  <2>2. hist'.apart \subseteq hist.apart
    BY <1>3
  <2>3. CASE q = r
    BY <1>2, <1>4, <2>1, <2>3, FamiliesAre DEF PastLock, RowOf, Found
  <2>4. CASE q # r
    BY <1>3, <1>4, <2>1, <2>2, <2>4 DEF PastLock, RowOf, Found
  <2> QED
    BY <2>3, <2>4
<1>9. LockHolds' /\ TokensUsable'
  BY <1>3, <1>4 DEF AuthInv, LockHolds, TokensUsable
<1> QED
  BY <1>5, <1>7, <1>8, <1>9 DEF AuthInv

LEMMA StartInv ==
  ASSUME AuthInv, NEW r \in Requests, Start(r)
  PROVE  AuthInv'
<1>1. ASSUME NEW s \in Ids, db.session[s].state # "none", Begin(r, "revoke", s)
      PROVE  AuthInv'
  BY <1>1, FamiliesAre, BeginInv
<1>2. ASSUME NEW argument,
             NEW call \in {"exists", "locked", "valid", "verify", "redeem", "challenge",
                           "forgot", "resend", "read", "logout", "enabled", "pending",
                           "hash", "newkey", "endkey"},
             Begin(r, call, argument)
      PROVE  AuthInv'
  <2>1. call \notin (Logins \cup Refreshes \cup {"new"}) \ {"locked", "valid"}
        /\ call # "revoke"
    BY FamiliesAre
  <2> QED
    BY <1>2, <2>1, BeginInv
<1>3. \/ \E call \in {"exists", "locked", "valid", "verify", "redeem", "challenge",
                      "forgot", "resend", "read", "logout", "enabled", "pending",
                      "hash", "newkey", "endkey"} :
           \E argument : Begin(r, call, argument)
      \/ \E s \in Ids : db.session[s].state # "none" /\ Begin(r, "revoke", s)
  BY Zenon DEF Start
<1> QED
  BY <1>1, <1>2, <1>3

LEMMA AuthStep ==
  ASSUME AuthInv, [Next]_vars
  PROVE  AuthInv'
<1>1. CASE UNCHANGED vars
  <2>1. UNCHANGED <<db, pc, in, loc, hist>>
    BY <1>1 DEF vars
  <2>2. AuthTyped' /\ RowsStay /\ db'.recent <= db.recent
    BY <2>1 DEF AuthInv, AuthTyped, RowsStay
  <2> QED
    BY <2>1, <2>2, AuthFrame
<1>2. ASSUME NEW r \in Requests,
        \/ Start(r)
        \/ UserExists(r) \/ CreateUser(r)
        \/ IsAccountLocked(r) \/ GetUser(r) \/ Has2FAEnabled(r)
        \/ Create2FASession(r)
        \/ CreateSession(r) \/ CountFailed(r) \/ InsertAttempt(r)
        \/ IsSessionValid(r) \/ IsActive(r) \/ UpdateSession(r)
        \/ Logout(r) \/ RevokeSession(r) \/ GetPassword(r)
        \/ ChangePassword(r)
        \/ GetResetUser(r) \/ CanRequestReset(r) \/ StoreResetToken(r)
        \/ ResendVerification(r) \/ VerifyEmail(r) \/ ResetPassword(r)
        \/ Check2FA(r) \/ StoreCode(r) \/ StoreMethod(r)
        \/ GetPending2FA(r) \/ CheckCode(r) \/ MarkCode(r)
        \/ GenerateBackupCodes(r) \/ EnableMethod(r)
        \/ Get2FASession(r) \/ Get2FAMethod(r) \/ VerifyBackupCode(r)
        \/ MarkBackupCode(r) \/ Mark2FASession(r)
        \/ GetHash(r) \/ DisableMethods(r) \/ DropBackupCodes(r)
        \/ CreateAPIKey(r) \/ RevokeAPIKey(r)
        \/ StoreFails(r)
      PROVE  AuthInv'
  BY <1>2, StartInv, QuietStatements, WritingStatements, FactorStatements, LoginReads,
     CreateSessionInv, InsertAttemptInv, RefreshReads, UpdateSessionInv, EndStatements
<1>3. CASE Quiet
  BY <1>1, <1>3 DEF Quiet
<1> QED
  BY <1>1, <1>2, <1>3, TimeInv DEF Next

LEMMA AuthInvHolds == Spec => []AuthInv
<1>1. Init => AuthInv
  BY AuthStart
<1>2. AuthInv /\ [Next]_vars => AuthInv'
  BY AuthStep
<1> QED
  BY <1>1, <1>2, PTL DEF Spec

(* isAccountLocked and recordLoginAttempt: as long as no two logins        *)
(* overlap, a lock that was set is the one the next login meets, and       *)
(* MaxLoginAttempts failures in the window have set one.                   *)
THEOREM LockHoldsCorrect == Spec => []LockHolds
<1>1. AuthInv => LockHolds
  BY DEF AuthInv
<1> QED
  BY <1>1, AuthInvHolds, PTL

(* RefreshToken and UpdateSession: as long as no two refreshes overlap, a  *)
(* refresh token that was handed out and not exchanged is in a row.        *)
THEOREM TokensUsableCorrect ==
  Spec => []TokensUsable
<1>1. AuthInv => TokensUsable
  BY DEF AuthInv
<1> QED
  BY <1>1, AuthInvHolds, PTL

-----------------------------------------------------------------------------
(* The second factor.  A code, a backup code and a challenge are all named *)
(* by the request that makes them, so a request that may still make one    *)
(* has not made another.                                                   *)
FactorCalls == Family.factor

Early == {"new", "locked", "user", "has2FA", "create2FA", "enabled", "code", "pending",
          "setupcode", "markcode", "backups", "challenge", "method", "logincode"}

IsCode(i) == \E k \in DOMAIN db.codes : db.codes[k].id = i
Unused(i) == \E k \in DOMAIN db.codes : db.codes[k].id = i /\ db.codes[k].state # "used"

(* The code belongs to a login, not to a set-up.                           *)
LogsIn(r) == "of" \in DOMAIN in[r]

FactorTyped ==
  /\ db.factor \in Factors /\ db.codes \in Seq(Codes)
  /\ db.backup \subseteq Requests
  /\ DOMAIN db.challenge = Requests /\ hist.accepted \in [Ids -> Nat]

Shape(r) ==
  /\ pc[r] \in {"pending", "setupcode"} => ~LogsIn(r)
  /\ pc[r] \in {"challenge", "method", "backupcode", "markbackup", "logincode",
                  "verified"} => LogsIn(r)
  /\ pc[r] \in {"challenge", "method", "backupcode", "markbackup", "logincode",
                  "verified", "markcode"} /\ LogsIn(r) => in[r].of \in Requests

(* A set-up began with no factor enabled and ends with a secret that was   *)
(* checked, or without one.                                                *)
Setting(r) ==
  /\ pc[r] \in {"code", "upsert"} => db.factor["totp"].state # "enabled"
  /\ pc[r] = "setupcode" => loc[r] = "code"
  /\ pc[r] = "markcode" /\ ~LogsIn(r) => loc[r] = "code"
  /\ pc[r] \in {"backups", "enable"} /\ loc[r] = "totp" =>
       db.factor["totp"].secret \in hist.proven

SetUp ==
  /\ db.factor["totp"].state = "enabled" => db.factor["totp"].secret \in hist.proven
  /\ \A r \in Requests : Setting(r)

(* The challenge of a login that goes on is not verified yet.              *)
Verifying(r) ==
  /\ pc[r] \in {"method", "backupcode", "markbackup", "logincode", "verified", "markcode"}
  /\ LogsIn(r)
  => db.challenge[in[r].of] \in {"open", "expired"}

Fresh(r) ==
  pc[r] \in Early =>
    /\ hist.accepted[r] = 0 /\ ~IsCode(r)
    /\ r \notin db.backup /\ db.challenge[r] = "none"

(* What was accepted once is used up, unless it is about to be marked.     *)
Once(i) ==
  /\ hist.accepted[i] <= 1
  /\ IsCode(i) => i \notin db.backup /\ (i \in Requests => db.challenge[i] = "none")
  /\ i \in db.backup => i \in Requests /\ db.challenge[i] = "none"
  /\ hist.accepted[i] = 1 =>
       /\ Unused(i) => \E r \in Requests : pc[r] = "markcode" /\ in[r].code = i
       /\ i \in db.backup =>
            \E r \in Requests : pc[r] = "markbackup" /\ in[r].code = i
       /\ i \in Requests => db.challenge[i] \notin {"open", "expired"}

Spent ==
  /\ \A r \in Requests : Verifying(r) /\ Fresh(r)
  /\ \A i \in Ids : Once(i)

FactorInv ==
  /\ FactorTyped /\ Alone("factor", FactorCalls)
  /\ \A r \in Requests : Shape(r)
  /\ "factor" \in hist.apart => SetUp
  /\ "factor" \in hist.apart /\ ~hist.unmarked => Spent

LEMMA FactorCallsAre ==
  FactorCalls = {"enabled", "upsert", "code", "pending", "setupcode", "markcode",
                 "backups", "enable", "challenge", "method", "backupcode", "markbackup",
                 "logincode", "verified"}
BY DEF FactorCalls, Family

LEMMA FactorStart ==
  ASSUME Init
  PROVE  FactorInv
<1>1. PICK a \in Accounts :
        /\ db = [user |-> a.user, recent |-> 0, lock |-> FALSE,
                 session |-> [i \in Ids |->
                    [token |-> i, state |-> IF i = 0 /\ a.user.exists THEN "live" ELSE "none"]],
                 factor |-> a.factor,
                 newest |-> SetToSeq({m \in Methods : a.factor[m].state # "none"}),
                 codes |-> a.codes, backup |-> {},
                 challenge |-> [r \in Requests |-> "none"],
                 stored |-> {}, cooling |-> FALSE,
                 key |-> [r \in Requests |-> "none"]]
        /\ hist = [given |-> IF a.user.exists THEN {0} ELSE {}, spent |-> {},
                   proven |-> {i \in {0} : a.factor["totp"].state = "enabled"},
                   accepted |-> [i \in Ids |-> 0],
                   locked |-> FALSE, lapsed |-> FALSE, unmarked |-> FALSE,
                   apart |-> DOMAIN Family]
  BY Zenon DEF Init
<1>2. /\ db.factor = a.factor /\ db.codes = a.codes /\ db.backup = {}
      /\ db.challenge = [r \in Requests |-> "none"]
      /\ hist.proven = {i \in {0} : a.factor["totp"].state = "enabled"}
      /\ hist.accepted = [i \in Ids |-> 0]
  BY <1>1
<1>3. pc = [r \in Requests |-> "new"]
  BY DEF Init
<1>4. /\ a.factor \in Factors /\ a.factor["totp"].secret = 0
      /\ a.codes \in {<<>>, <<Code(0)>>}
  BY AccountAssumption DEF Methods
<1>5. 0 \in Ids /\ 0 \notin Requests
  BY AccountAssumption DEF Ids, Requests
<1>6. Code(0) \in Codes /\ Code(0).id = 0
  BY <1>5 DEF Code, Codes
<1>7. FactorTyped
  <2>1. a.codes \in Seq(Codes)
    <3>1. ASSUME NEW S, NEW c \in S
          PROVE  <<>> \in Seq(S) /\ <<c>> \in Seq(S)
      OBVIOUS
    <3> QED
      BY <1>4, <1>6, <3>1
  <2>2. DOMAIN db.challenge = Requests /\ hist.accepted \in [Ids -> Nat]
    BY <1>2
  <2> QED
    BY <1>2, <1>4, <2>1, <2>2 DEF FactorTyped
<1>8. Alone("factor", FactorCalls) /\ \A r \in Requests : Shape(r)
  BY <1>3, FactorCallsAre DEF Alone, Shape
<1>9. SetUp
  BY <1>2, <1>3, <1>4 DEF SetUp, Setting
<1>10. \A i : IsCode(i) => i = 0
  BY <1>2, <1>4, <1>6 DEF IsCode
<1>11. \A i \in Ids : Once(i)
  BY <1>2, <1>5, <1>10 DEF Once
<1>12. \A r \in Requests : Verifying(r) /\ Fresh(r)
  BY <1>2, <1>3, <1>5, <1>10, RequestIds DEF Verifying, Fresh
<1> QED
  BY <1>7, <1>8, <1>9, <1>11, <1>12 DEF FactorInv, Spent

(* A request that stays where it is.                                       *)
Same(q) == pc'[q] = pc[q] /\ in'[q] = in[q] /\ loc'[q] = loc[q]

LEMMA SetUpFrame ==
  ASSUME SetUp, db'.factor["totp"].secret = db.factor["totp"].secret,
         db'.factor["totp"].state = "enabled" => db.factor["totp"].state = "enabled",
         hist.proven \subseteq hist'.proven,
         \A q \in Requests : Same(q) \/ Setting(q)'
  PROVE  SetUp'
<1>1. ASSUME NEW q \in Requests, Same(q)
      PROVE  Setting(q)'
  BY <1>1 DEF SetUp, Setting, Same, LogsIn
<1> QED
  BY <1>1 DEF SetUp

(* Codes, backup codes and challenges are used or expire, or stay.         *)
Shrinks ==
  /\ \A i \in Ids : (IsCode(i)' => IsCode(i)) /\ (Unused(i)' => Unused(i))
  /\ db'.backup \subseteq db.backup
  /\ \A c \in Requests :
       \/ db'.challenge[c] = db.challenge[c]
       \/ db.challenge[c] = "open" /\ db'.challenge[c] = "expired"

LEMMA VerifyingStays ==
  ASSUME NEW q \in Requests, Same(q), Shape(q), Verifying(q),
         LogsIn(q) /\ in[q].of \in Requests =>
            \/ db'.challenge[in[q].of] = db.challenge[in[q].of]
            \/ /\ db.challenge[in[q].of] = "open"
               /\ db'.challenge[in[q].of] = "expired"
  PROVE  Verifying(q)'
BY DEF Same, Verifying, Shape, LogsIn

LEMMA SpentFrame ==
  ASSUME Spent, \A q \in Requests : Shape(q), Shrinks, hist'.accepted = hist.accepted,
         \A q \in Requests :
           \/ Same(q)
           \/ pc[q] \notin {"markcode", "markbackup"} /\ Verifying(q)' /\ Fresh(q)'
  PROVE  Spent'
<1>1. ASSUME NEW q \in Requests
      PROVE  Verifying(q)' /\ Fresh(q)'
  <2>1. CASE Same(q)
    <3>1. Verifying(q) /\ Fresh(q) /\ q \in Ids
      BY RequestIds DEF Spent
    <3>2. Verifying(q)'
      BY <2>1, <3>1, VerifyingStays DEF Shrinks
    <3>3. Fresh(q)'
      BY <2>1, <3>1 DEF Same, Fresh, Shrinks
    <3> QED
      BY <3>2, <3>3
  <2> QED
    BY <2>1
<1>2. ASSUME NEW i \in Ids
      PROVE  Once(i)'
  <2>1. Once(i)
    BY DEF Spent
  <2>2. \A r \in Requests : pc[r] \in {"markcode", "markbackup"} =>
          pc'[r] = pc[r] /\ in'[r] = in[r]
    BY DEF Same
  <2>3. /\ IsCode(i)' => IsCode(i)
        /\ Unused(i)' => Unused(i)
        /\ i \in db'.backup => i \in db.backup
        /\ i \in Requests =>
             \/ db'.challenge[i] = db.challenge[i]
             \/ db.challenge[i] = "open" /\ db'.challenge[i] = "expired"
    BY DEF Shrinks
  <2> QED
    BY <2>1, <2>2, <2>3 DEF Once
<1> QED
  BY <1>1, <1>2 DEF Spent

(* A step of one request, or of time, after which nothing is new.          *)
Wanes ==
  /\ FactorTyped' /\ Shrinks
  /\ db'.factor["totp"].secret = db.factor["totp"].secret
  /\ db'.factor["totp"].state = "enabled" => db.factor["totp"].state = "enabled"
  /\ hist'.accepted = hist.accepted /\ hist.proven \subseteq hist'.proven
  /\ hist'.unmarked = hist.unmarked /\ hist'.apart = hist.apart

LEMMA FactorAlone ==
  ASSUME AuthInv, FactorInv, NEW r \in Requests, NEW next, NEW value,
         Goto(r, next, value), hist'.apart = hist.apart,
         next \in FactorCalls => pc[r] \in FactorCalls
  PROVE  Alone("factor", FactorCalls)'
<1>1. \A q \in Requests : pc'[q] \in FactorCalls => pc[q] \in FactorCalls
  BY Goes
<1>2. FactorCalls' = FactorCalls
  BY DEF FactorCalls, Family
<1> QED
  BY <1>1, <1>2 DEF FactorInv, Alone

LEMMA ShapesStay ==
  ASSUME AuthInv, FactorInv, NEW r \in Requests, NEW next, NEW value,
         Goto(r, next, value), Shape(r)'
  PROVE  \A q \in Requests : Shape(q)'
<1>1. ASSUME NEW q \in Requests, q # r
      PROVE  Shape(q)'
  BY <1>1, Goes DEF FactorInv, Shape, LogsIn
<1> QED
  BY <1>1

LEMMA FactorGoes ==
  ASSUME AuthInv, FactorInv, Wanes, NEW r \in Requests, NEW next, NEW value,
         Goto(r, next, value), next \in FactorCalls => pc[r] \in FactorCalls,
         pc[r] \notin {"markcode", "markbackup"}, Shape(r)',
         "factor" \in hist.apart => Setting(r)',
         "factor" \in hist.apart /\ ~hist.unmarked => Verifying(r)' /\ Fresh(r)'
  PROVE  FactorInv'
<1>1. \A q \in Requests \ {r} : Same(q)
  BY Goes DEF Same
<1>2. Alone("factor", FactorCalls)'
  BY FactorAlone DEF Wanes
<1>3. \A q \in Requests : Shape(q)'
  BY ShapesStay
<1>4. "factor" \in hist.apart => SetUp'
  BY <1>1, SetUpFrame DEF FactorInv, Wanes
<1>5. "factor" \in hist.apart /\ ~hist.unmarked => Spent'
  <2> SUFFICES ASSUME "factor" \in hist.apart, ~hist.unmarked PROVE Spent'
    OBVIOUS
  <2>1. Spent /\ \A q \in Requests : Shape(q)
    BY DEF FactorInv
  <2>2. \A q \in Requests :
          \/ Same(q)
          \/ pc[q] \notin {"markcode", "markbackup"} /\ Verifying(q)' /\ Fresh(q)'
    BY <1>1
  <2> QED
    BY <2>1, <2>2, SpentFrame DEF Wanes
<1> QED
  BY <1>2, <1>3, <1>4, <1>5 DEF FactorInv, Wanes

(* What the second factor keeps is left alone.                             *)
FactorBeside ==
  /\ db'.factor = db.factor /\ db'.codes = db.codes /\ db'.backup = db.backup
  /\ db'.challenge = db.challenge
  /\ hist'.accepted = hist.accepted /\ hist'.proven = hist.proven
  /\ hist'.unmarked = hist.unmarked /\ hist'.apart = hist.apart

LEMMA BesideWanes ==
  ASSUME FactorInv, FactorBeside
  PROVE  Wanes
BY DEF FactorInv, FactorBeside, Wanes, FactorTyped, Shrinks, IsCode, Unused

(* Statements of other requests: a login may still make a challenge.       *)
LEMMA OthersGo ==
  ASSUME AuthInv, FactorInv, Wanes, NEW r \in Requests, NEW next, NEW value,
         Goto(r, next, value), next \notin FactorCalls,
         next \in Early => pc[r] \in Early,
         pc[r] \notin {"markcode", "markbackup"}
  PROVE  FactorInv'
<1>1. pc'[r] = next
  BY Goes
<1>2. Shape(r)' /\ Setting(r)' /\ Verifying(r)'
  BY <1>1, FactorCallsAre DEF Shape, Setting, Verifying
<1>3. "factor" \in hist.apart /\ ~hist.unmarked => Fresh(r)'
  BY <1>1, RequestIds DEF FactorInv, Spent, Fresh, Wanes, Shrinks
<1> QED
  BY <1>2, <1>3, FactorGoes

LEMMA OthersRead ==
  ASSUME AuthInv, FactorInv, NEW r \in Requests,
         \/ UserExists(r) \/ IsAccountLocked(r) \/ GetUser(r)
         \/ Has2FAEnabled(r) \/ CountFailed(r)
         \/ IsSessionValid(r) \/ IsActive(r) \/ GetPassword(r)
         \/ GetResetUser(r) \/ CanRequestReset(r)
         \/ VerifyEmail(r) \/ ResetPassword(r) \/ GetHash(r)
  PROVE  FactorInv'
<1>1. ASSUME NEW next \in {"done", "create", "user", "count", "has2FA", "create2FA",
                           "session", "record", "active", "rotate", "change", "cooldown",
                           "reset", "disable"},
             NEW value, Read(r, next, value),
             pc[r] \notin {"markcode", "markbackup"},
             next \in {"user", "has2FA", "create2FA"} =>
               pc[r] \in {"locked", "user", "has2FA"}
      PROVE  FactorInv'
  <2>1. Wanes
    BY <1>1, BesideWanes DEF Read, FactorBeside
  <2>2. next \notin FactorCalls /\ (next \in Early => pc[r] \in Early)
    BY <1>1, FactorCallsAre DEF Early
  <2> QED
    BY <1>1, <2>1, <2>2, OthersGo DEF Read
<1>2. CASE UserExists(r)
  BY <1>1, <1>2 DEF UserExists, At, Branch
<1>3. CASE IsAccountLocked(r)
  BY <1>1, <1>3 DEF IsAccountLocked, At, Branch
<1>4. CASE GetUser(r)
  BY <1>1, <1>4 DEF GetUser, At, Branch
<1>5. CASE Has2FAEnabled(r)
  BY <1>1, <1>5 DEF Has2FAEnabled, At, Branch
<1>6. CASE CountFailed(r)
  BY <1>1, <1>6 DEF CountFailed, At
<1>7. CASE IsSessionValid(r) \/ IsActive(r)
  BY <1>1, <1>7 DEF IsSessionValid, IsActive, At, Branch
<1>8. CASE GetPassword(r)
  BY <1>1, <1>8 DEF GetPassword, At, Branch
<1>9. CASE GetResetUser(r) \/ CanRequestReset(r)
  BY <1>1, <1>9 DEF GetResetUser, CanRequestReset, At, Branch
<1>10. CASE VerifyEmail(r) \/ ResetPassword(r)
  BY <1>1, <1>10 DEF VerifyEmail, ResetPassword, NoSuchToken, At,
                     Branch
<1>11. CASE GetHash(r)
  BY <1>1, <1>11 DEF GetHash, At, Branch
<1> QED
  BY <1>2, <1>3, <1>4, <1>5, <1>6, <1>7, <1>8, <1>9, <1>10, <1>11

LEMMA OthersWrite ==
  ASSUME AuthInv, FactorInv, NEW r \in Requests,
         \/ CreateUser(r) \/ CreateSession(r) \/ InsertAttempt(r)
         \/ UpdateSession(r) \/ Logout(r) \/ RevokeSession(r)
         \/ ChangePassword(r) \/ StoreResetToken(r)
         \/ ResendVerification(r) \/ CreateAPIKey(r) \/ RevokeAPIKey(r)
         \/ DisableMethods(r) \/ DropBackupCodes(r)
  PROVE  FactorInv'
<1>1. /\ DOMAIN db = {"user", "recent", "lock", "session", "factor", "newest", "codes",
                      "backup", "challenge", "stored", "cooling", "key"}
      /\ DOMAIN hist = {"given", "spent", "proven", "accepted", "locked", "lapsed",
                        "unmarked", "apart"}
  BY DEF AuthInv, AuthTyped
<1>2. ASSUME NEW next \in {"done", "count", "drop"}, NEW value,
             Goto(r, next, value), Wanes, pc[r] \notin {"markcode", "markbackup"}
      PROVE  FactorInv'
  <2>1. next \notin FactorCalls /\ next \notin Early
    BY <1>2, FactorCallsAre DEF Early
  <2> QED
    BY <1>2, <2>1, OthersGo
<1>3. ASSUME NEW next \in {"done", "count"}, NEW tables, NEW history,
             Write(r, next, tables, history),
             pc[r] \notin {"markcode", "markbackup"},
             tables.factor = db.factor, tables.codes = db.codes, tables.backup = db.backup,
             tables.challenge = db.challenge, history.accepted = hist.accepted,
             history.proven = hist.proven, history.unmarked = hist.unmarked,
             history.apart = hist.apart
      PROVE  FactorInv'
  <2>1. Wanes
    BY <1>3, BesideWanes DEF Write, FactorBeside
  <2> QED
    BY <1>2, <1>3, <2>1 DEF Write
<1>4. ASSUME Branch(r, "done"), pc[r] \notin {"markcode", "markbackup"}
      PROVE  FactorInv'
  BY <1>2, <1>4, BesideWanes DEF Branch, Read, FactorBeside
<1>5. CASE CreateUser(r)
  <2>1. pc[r] \notin {"markcode", "markbackup"}
    BY <1>5 DEF CreateUser, At
  <2>2. CASE ~db.user.exists
    <3> DEFINE new == [exists |-> TRUE, active |-> TRUE,
                       verified |-> ~RequireVerified, pwd |-> in[r]]
               tables == [db EXCEPT !.user = new,
                            !.stored = IF RequireVerified THEN @ \cup {<<r, r>>} ELSE @]
    <3>1. Write(r, "done", tables, hist)
      BY <1>5, <2>2 DEF CreateUser
    <3> HIDE DEF new
    <3>2. /\ tables.factor = db.factor /\ tables.codes = db.codes
          /\ tables.backup = db.backup /\ tables.challenge = db.challenge
      BY <1>1
    <3> HIDE DEF tables
    <3> QED
      BY <1>3, <2>1, <3>1, <3>2
  <2> QED
    BY <1>4, <1>5, <2>1, <2>2 DEF CreateUser
<1>6. CASE CreateSession(r)
  BY <1>1, <1>3, <1>6 DEF CreateSession, At
<1>7. CASE InsertAttempt(r)
  <2> DEFINE locks == Locks(loc[r])
             n == IF loc[r].ok THEN db.recent ELSE db.recent + 1
             tables == [db EXCEPT !.recent = n, !.lock = locks]
             history == [hist EXCEPT !.locked = @ \/ locks]
  <2>1. Write(r, "done", tables, history) /\ pc[r] = "record"
    BY <1>7 DEF InsertAttempt, At
  <2> HIDE DEF n, locks
  <2>2. /\ tables.factor = db.factor /\ tables.codes = db.codes
        /\ tables.backup = db.backup /\ tables.challenge = db.challenge
        /\ history.accepted = hist.accepted /\ history.proven = hist.proven
        /\ history.unmarked = hist.unmarked /\ history.apart = hist.apart
    BY <1>1
  <2> HIDE DEF tables, history
  <2> QED
    BY <1>3, <2>1, <2>2
<1>8. CASE UpdateSession(r)
  <2> DEFINE rows == Set(Rows(in[r]),
                       [s \in Ids |-> [db.session[s] EXCEPT !.token = r]])
             tables == [db EXCEPT !.session = rows]
             history == [hist EXCEPT !.given = @ \cup {r}, !.spent = @ \cup {in[r]}]
  <2>1. Write(r, "done", tables, history) /\ pc[r] = "rotate"
    BY <1>8 DEF UpdateSession, At
  <2> HIDE DEF rows
  <2>2. /\ tables.factor = db.factor /\ tables.codes = db.codes
        /\ tables.backup = db.backup /\ tables.challenge = db.challenge
        /\ history.accepted = hist.accepted /\ history.proven = hist.proven
        /\ history.unmarked = hist.unmarked /\ history.apart = hist.apart
    BY <1>1
  <2> HIDE DEF tables, history
  <2> QED
    BY <1>3, <2>1, <2>2
<1>9. CASE Logout(r) \/ RevokeSession(r)
  <2>1. PICK rows : Write(r, "done", Revoked(rows), hist)
    BY <1>9, Zenon DEF Logout, RevokeSession
  <2>2. pc[r] \notin {"markcode", "markbackup"}
    BY <1>9 DEF Logout, RevokeSession, At
  <2>3. /\ Revoked(rows).factor = db.factor /\ Revoked(rows).codes = db.codes
        /\ Revoked(rows).backup = db.backup
        /\ Revoked(rows).challenge = db.challenge
    BY <1>1 DEF Revoked
  <2> QED
    BY <1>3, <2>1, <2>2, <2>3
<1>10. CASE ChangePassword(r)
  BY <1>1, <1>3, <1>10 DEF ChangePassword, At
<1>11. CASE StoreResetToken(r)
  <2> DEFINE tables == [db EXCEPT !.stored = @ \cup {HashToken(r, r)},
                                  !.cooling = TRUE]
  <2>1. Write(r, "done", tables, hist) /\ pc[r] = "reset"
    BY <1>11 DEF StoreResetToken, At
  <2>2. /\ tables.factor = db.factor /\ tables.codes = db.codes
        /\ tables.backup = db.backup /\ tables.challenge = db.challenge
    BY <1>1
  <2> HIDE DEF tables
  <2> QED
    BY <1>3, <2>1, <2>2
<1>12. CASE ResendVerification(r)
  <2>1. pc[r] = "resend"
    BY <1>12 DEF ResendVerification, At
  <2>2. CASE Branch(r, "done")
    BY <1>4, <2>1, <2>2
  <2>3. CASE ~Branch(r, "done")
    BY <1>1, <1>3, <1>12, <2>1, <2>3 DEF ResendVerification
  <2> QED
    BY <2>2, <2>3
<1>13. CASE CreateAPIKey(r)
  BY <1>1, <1>3, <1>13 DEF CreateAPIKey, At
<1>14. CASE RevokeAPIKey(r)
  BY <1>1, <1>3, <1>14 DEF RevokeAPIKey, At
<1>15. CASE DisableMethods(r)
  <2> DEFINE off == [m \in Methods |->
               IF m \in Enabled THEN [db.factor[m] EXCEPT !.state = "pending"]
               ELSE db.factor[m]]
  <2>1. /\ pc[r] = "disable" /\ Goto(r, "drop", loc[r])
        /\ db' = [db EXCEPT !.factor = off] /\ hist' = hist
    BY <1>15 DEF DisableMethods, At, Write
  <2>2. db.factor \in Factors
    BY DEF FactorInv, FactorTyped
  <2>3. /\ off \in Factors /\ off["totp"].secret = db.factor["totp"].secret
        /\ off["totp"].state # "enabled"
    BY <2>2 DEF Factors, Methods, Enabled
  <2> HIDE DEF off
  <2>4. /\ db'.factor = off /\ db'.codes = db.codes /\ db'.backup = db.backup
        /\ db'.challenge = db.challenge
    BY <1>1, <2>1
  <2>5. Wanes
    BY <2>1, <2>3, <2>4 DEF FactorInv, FactorTyped, Wanes, Shrinks, IsCode, Unused
  <2> QED
    BY <1>2, <2>1, <2>5
<1>16. CASE DropBackupCodes(r)
  <2>1. /\ pc[r] = "drop" /\ Goto(r, "done", loc[r])
        /\ db' = [db EXCEPT !.backup = {}] /\ hist' = hist
    BY <1>16 DEF DropBackupCodes, At, Write
  <2>2. /\ db'.factor = db.factor /\ db'.codes = db.codes /\ db'.backup = {}
        /\ db'.challenge = db.challenge
    BY <1>1, <2>1
  <2>3. Wanes
    BY <2>1, <2>2 DEF FactorInv, FactorTyped, Wanes, Shrinks, IsCode, Unused
  <2> QED
    BY <1>2, <2>1, <2>3
<1> QED
  BY <1>5, <1>6, <1>7, <1>8, <1>9, <1>10, <1>11, <1>12, <1>13, <1>14, <1>15, <1>16

(* Statements of the second factor that only read.                         *)
LEMMA Check2FAInv ==
  ASSUME AuthInv, FactorInv, NEW r \in Requests,
         Check2FA(r)
  PROVE  FactorInv'
<1>1. PICK next \in {"done", "code", "upsert"} :
        /\ pc[r] = "enabled" /\ Read(r, next, loc[r])
        /\ next # "done" => Enabled = {}
  BY DEF Check2FA, At, Branch
<1>2. pc'[r] = next /\ Wanes
  BY <1>1, Goes, BesideWanes DEF Read, FactorBeside
<1>3. next # "done" => db.factor["totp"].state # "enabled"
  BY <1>1 DEF Enabled, Methods
<1>4. Shape(r)' /\ Setting(r)' /\ Verifying(r)'
  BY <1>2, <1>3 DEF Shape, Setting, Verifying, Wanes
<1>5. "factor" \in hist.apart /\ ~hist.unmarked => Fresh(r)'
  BY <1>1, <1>2, RequestIds DEF FactorInv, Spent, Fresh, Wanes, Shrinks, Early
<1> QED
  BY <1>1, <1>2, <1>4, <1>5, FactorCallsAre, FactorGoes DEF Read

LEMMA GetPending2FAInv ==
  ASSUME AuthInv, FactorInv, NEW r \in Requests,
         GetPending2FA(r)
  PROVE  FactorInv'
<1>1. /\ pc[r] = "pending" /\ UNCHANGED db
      /\ \/ Goto(r, "done", loc[r]) /\ hist' = hist
         \/ Goto(r, "setupcode", "code") /\ hist' = hist
         \/ \E m : /\ Goto(r, "backups", m)
                   /\ in[r].code = db.factor[m].secret
                   /\ hist' = [hist EXCEPT !.proven = @ \cup {in[r].code}]
  BY Zenon DEF GetPending2FA, At, Branch, Read
<1>2. DOMAIN hist = {"given", "spent", "proven", "accepted", "locked", "lapsed",
                     "unmarked", "apart"}
  BY DEF AuthInv, AuthTyped
<1>3. Wanes
  <2>1. /\ hist'.accepted = hist.accepted /\ hist'.unmarked = hist.unmarked
        /\ hist'.apart = hist.apart /\ hist.proven \subseteq hist'.proven
    BY <1>1, <1>2
  <2> QED
    BY <1>1, <2>1 DEF FactorInv, Wanes, FactorTyped, Shrinks, IsCode, Unused
<1>4. Shape(r) /\ (pc'[r] # "done" => in'[r] = in[r])
      /\ pc'[r] \in {"done", "setupcode", "backups"}
  BY <1>1, Goes DEF FactorInv
<1>5. Shape(r)' /\ Verifying(r)'
  BY <1>1, <1>4 DEF Shape, Verifying, LogsIn
<1>6. Setting(r)'
  <2>1. CASE pc'[r] = "setupcode"
    <3>1. Goto(r, "setupcode", "code")
      BY <1>1, <2>1, Goes
    <3> QED
      BY <2>1, <3>1, Goes DEF Setting
  <2>2. CASE pc'[r] = "backups"
    <3>1. PICK m : /\ Goto(r, "backups", m)
                   /\ in[r].code = db.factor[m].secret
                   /\ hist' = [hist EXCEPT !.proven = @ \cup {in[r].code}]
      BY <1>1, <2>2, Goes
    <3>2. loc'[r] = m /\ in[r].code \in hist'.proven
      BY <1>2, <3>1, Goes
    <3> QED
      BY <1>1, <2>2, <3>1, <3>2 DEF Setting
  <2> QED
    BY <1>4, <2>1, <2>2 DEF Setting
<1>7. "factor" \in hist.apart /\ ~hist.unmarked => Fresh(r)'
  BY <1>1, <1>3, RequestIds DEF FactorInv, Spent, Fresh, Wanes, Shrinks, Early
<1> QED
  BY <1>1, <1>3, <1>5, <1>6, <1>7, FactorCallsAre, FactorGoes

LEMMA Get2FAInv ==
  ASSUME AuthInv, FactorInv, NEW r \in Requests,
         Get2FASession(r) \/ Get2FAMethod(r)
  PROVE  FactorInv'
<1>1. PICK next \in {"done", "method", "logincode", "verified", "backupcode"} :
        /\ Read(r, next, loc[r])
        /\ \/ /\ pc[r] = "challenge" /\ next \in {"done", "method"}
              /\ next # "done" => db.challenge[in[r].of] = "open"
           \/ pc[r] = "method" /\ next # "method"
  BY DEF Get2FASession, Get2FAMethod, At, Branch
<1>2. /\ pc'[r] = next /\ Wanes /\ (next # "done" => in'[r] = in[r])
      /\ db' = db /\ hist' = hist
  BY <1>1, Goes, BesideWanes DEF Read, FactorBeside
<1>3. Shape(r)' /\ Setting(r)'
  <2>1. Shape(r)
    BY DEF FactorInv
  <2> QED
    BY <1>1, <1>2, <2>1 DEF Shape, Setting, LogsIn
<1>4. ASSUME "factor" \in hist.apart, ~hist.unmarked
      PROVE  Verifying(r)' /\ Fresh(r)'
  <2>1. Verifying(r) /\ Fresh(r)
    BY <1>4 DEF FactorInv, Spent
  <2>2. Verifying(r)'
    BY <1>1, <1>2, <2>1 DEF Verifying, LogsIn
  <2>3. Fresh(r)'
    BY <1>1, <1>2, <2>1 DEF Fresh, Early, IsCode
  <2> QED
    BY <2>2, <2>3
<1> QED
  BY <1>1, <1>2, <1>3, <1>4, FactorCallsAre, FactorGoes DEF Read

(* The request that makes a challenge, a code or a backup code has made    *)
(* nothing else.                                                           *)
LEMMA Create2FASessionInv ==
  ASSUME AuthInv, FactorInv, NEW r \in Requests,
         Create2FASession(r)
  PROVE  FactorInv'
<1>1. /\ pc[r] = "create2FA" /\ Goto(r, "done", loc[r]) /\ hist' = hist
      /\ db' = [db EXCEPT !.challenge[r] = "open"]
  BY DEF Create2FASession, At, Write
<1>2. /\ db'.factor = db.factor /\ db'.codes = db.codes /\ db'.backup = db.backup
      /\ db'.challenge = [db.challenge EXCEPT ![r] = "open"]
  BY <1>1 DEF AuthInv, AuthTyped
<1>3. /\ DOMAIN db'.challenge = Requests /\ db'.challenge[r] = "open"
      /\ \A c \in Requests \ {r} : db'.challenge[c] = db.challenge[c]
  BY <1>2 DEF FactorInv, FactorTyped
<1>4. pc'[r] = "done" /\ \A q \in Requests \ {r} : Same(q)
  BY <1>1, Goes DEF Same
<1>5. FactorTyped'
  BY <1>1, <1>2, <1>3 DEF FactorInv, FactorTyped
<1>6. Alone("factor", FactorCalls)'
  BY <1>1, FactorAlone, FactorCallsAre
<1>7. \A q \in Requests : Shape(q)'
  <2>1. Shape(r)'
    BY <1>4 DEF Shape
  <2> QED
    BY <1>1, <2>1, ShapesStay
<1>8. "factor" \in hist.apart => SetUp'
  <2>1. Setting(r)'
    BY <1>4 DEF Setting
  <2> QED
    BY <1>1, <1>2, <1>4, <2>1, SetUpFrame DEF FactorInv
<1>9. ASSUME "factor" \in hist.apart, ~hist.unmarked
      PROVE  Spent'
  <2>1. /\ Spent /\ r \in Ids /\ hist.accepted[r] = 0 /\ ~IsCode(r)
        /\ r \notin db.backup /\ db.challenge[r] = "none"
    BY <1>1, <1>9, RequestIds DEF FactorInv, Spent, Fresh, Early
  <2>2. ASSUME NEW q \in Requests
        PROVE  Verifying(q)' /\ Fresh(q)'
    <3>1. CASE q = r
      BY <1>4, <3>1 DEF Verifying, Fresh, Early
    <3>2. CASE q # r
      <4>1. Same(q) /\ Shape(q) /\ Verifying(q) /\ Fresh(q)
        BY <1>4, <2>1, <3>2 DEF FactorInv, Spent
      <4>2. Verifying(q)'
        BY <1>3, <2>1, <4>1 DEF Same, Verifying, Shape, LogsIn
      <4>3. Fresh(q)'
        BY <1>1, <1>2, <1>3, <3>2, <4>1 DEF Same, Fresh, IsCode
      <4> QED
        BY <4>2, <4>3
    <3> QED
      BY <3>1, <3>2
  <2>3. ASSUME NEW i \in Ids
        PROVE  Once(i)'
    <3>1. Once(i) /\ (IsCode(i)' <=> IsCode(i)) /\ (Unused(i)' <=> Unused(i))
      BY <1>2, <2>1 DEF Spent, IsCode, Unused
    <3>2. \A q \in Requests : pc[q] \in {"markcode", "markbackup"} =>
            pc'[q] = pc[q] /\ in'[q] = in[q]
      BY <1>1, <1>4 DEF Same
    <3>3. CASE i = r
      BY <1>1, <1>2, <2>1, <3>1, <3>3 DEF Once
    <3>4. CASE i # r
      BY <1>1, <1>2, <1>3, <3>1, <3>2, <3>4 DEF Once
    <3> QED
      BY <3>3, <3>4
  <2> QED
    BY <2>2, <2>3 DEF Spent
<1> QED
  BY <1>1, <1>5, <1>6, <1>7, <1>8, <1>9 DEF FactorInv

LEMMA StoreCodeInv ==
  ASSUME AuthInv, FactorInv, NEW r \in Requests,
         StoreCode(r)
  PROVE  FactorInv'
<1>1. /\ pc[r] = "code" /\ Goto(r, "upsert", loc[r]) /\ hist' = hist
      /\ db' = [db EXCEPT !.codes = Append(@, Code(r))]
  BY DEF StoreCode, At, Write
<1>2. /\ db'.factor = db.factor /\ db'.codes = Append(db.codes, Code(r))
      /\ db'.backup = db.backup /\ db'.challenge = db.challenge
  BY <1>1 DEF AuthInv, AuthTyped
<1>3. /\ db.codes \in Seq(Codes) /\ Code(r) \in Codes
      /\ Code(r).id = r /\ r \in Ids
  BY RequestIds DEF FactorInv, FactorTyped, Code, Codes
<1>4. pc'[r] = "upsert" /\ \A q \in Requests \ {r} : Same(q)
  BY <1>1, Goes DEF Same
<1>5. FactorTyped'
  BY <1>1, <1>2, <1>3 DEF FactorInv, FactorTyped
<1>6. Alone("factor", FactorCalls)'
  BY <1>1, FactorAlone, FactorCallsAre
<1>7. \A q \in Requests : Shape(q)'
  <2>1. Shape(r)'
    BY <1>4 DEF Shape
  <2> QED
    BY <1>1, <2>1, ShapesStay
<1>8. "factor" \in hist.apart => SetUp'
  <2>1. "factor" \in hist.apart => Setting(r)'
    BY <1>1, <1>2, <1>4 DEF FactorInv, SetUp, Setting
  <2> QED
    BY <1>1, <1>2, <1>4, <2>1, SetUpFrame DEF FactorInv
<1>9. ASSUME "factor" \in hist.apart, ~hist.unmarked
      PROVE  Spent'
  <2>1. /\ Spent /\ hist.accepted[r] = 0
        /\ r \notin db.backup /\ db.challenge[r] = "none"
    BY <1>1, <1>9 DEF FactorInv, Spent, Fresh, Early
  <2>2. \A i \in Ids : i # r =>
          (IsCode(i)' => IsCode(i)) /\ (Unused(i)' => Unused(i))
    BY <1>2, <1>3 DEF IsCode, Unused
  <2>3. ASSUME NEW q \in Requests
        PROVE  Verifying(q)' /\ Fresh(q)'
    <3>1. CASE q = r
      BY <1>4, <3>1 DEF Verifying, Fresh, Early
    <3>2. CASE q # r
      <4>1. Same(q) /\ Verifying(q) /\ Fresh(q) /\ q \in Ids
        BY <1>4, <2>1, <3>2, RequestIds DEF Spent
      <4>2. Verifying(q)'
        BY <1>2, <4>1 DEF Same, Verifying, LogsIn
      <4>3. Fresh(q)'
        BY <1>1, <1>2, <2>2, <3>2, <4>1 DEF Same, Fresh
      <4> QED
        BY <4>2, <4>3
    <3> QED
      BY <3>1, <3>2
  <2>4. ASSUME NEW i \in Ids
        PROVE  Once(i)'
    <3>1. Once(i)
      BY <2>1 DEF Spent
    <3>2. \A q \in Requests : pc[q] \in {"markcode", "markbackup"} =>
            pc'[q] = pc[q] /\ in'[q] = in[q]
      BY <1>1, <1>4 DEF Same
    <3>3. CASE i = r
      BY <1>1, <1>2, <2>1, <3>3 DEF Once
    <3>4. CASE i # r
      BY <1>1, <1>2, <2>2, <3>1, <3>2, <3>4 DEF Once
    <3> QED
      BY <3>3, <3>4
  <2> QED
    BY <2>3, <2>4 DEF Spent
<1> QED
  BY <1>1, <1>5, <1>6, <1>7, <1>8, <1>9 DEF FactorInv

LEMMA GenerateBackupCodesInv ==
  ASSUME AuthInv, FactorInv, NEW r \in Requests,
         GenerateBackupCodes(r)
  PROVE  FactorInv'
<1>1. /\ pc[r] = "backups" /\ Goto(r, "enable", loc[r]) /\ hist' = hist
      /\ db' = [db EXCEPT !.backup = @ \cup {r}]
  BY DEF GenerateBackupCodes, At, Write
<1>2. /\ db'.factor = db.factor /\ db'.codes = db.codes
      /\ db'.backup = db.backup \cup {r} /\ db'.challenge = db.challenge
  BY <1>1 DEF AuthInv, AuthTyped
<1>3. /\ pc'[r] = "enable" /\ loc'[r] = loc[r]
      /\ \A q \in Requests \ {r} : Same(q)
  BY <1>1, Goes DEF Same
<1>4. FactorTyped'
  BY <1>1, <1>2 DEF FactorInv, FactorTyped
<1>5. Alone("factor", FactorCalls)'
  BY <1>1, FactorAlone, FactorCallsAre
<1>6. \A q \in Requests : Shape(q)'
  <2>1. Shape(r)'
    BY <1>3 DEF Shape
  <2> QED
    BY <1>1, <2>1, ShapesStay
<1>7. "factor" \in hist.apart => SetUp'
  <2>1. "factor" \in hist.apart => Setting(r)'
    BY <1>1, <1>2, <1>3 DEF FactorInv, SetUp, Setting
  <2> QED
    BY <1>1, <1>2, <1>3, <2>1, SetUpFrame DEF FactorInv
<1>8. ASSUME "factor" \in hist.apart, ~hist.unmarked
      PROVE  Spent'
  <2>1. /\ Spent /\ hist.accepted[r] = 0 /\ ~IsCode(r) /\ db.challenge[r] = "none"
    BY <1>1, <1>8 DEF FactorInv, Spent, Fresh, Early
  <2>2. \A i : (IsCode(i)' <=> IsCode(i)) /\ (Unused(i)' <=> Unused(i))
    BY <1>2 DEF IsCode, Unused
  <2>3. ASSUME NEW q \in Requests
        PROVE  Verifying(q)' /\ Fresh(q)'
    <3>1. CASE q = r
      BY <1>3, <3>1 DEF Verifying, Fresh, Early
    <3>2. CASE q # r
      <4>1. Same(q) /\ Verifying(q) /\ Fresh(q)
        BY <1>3, <2>1, <3>2 DEF Spent
      <4>2. Verifying(q)'
        BY <1>2, <4>1 DEF Same, Verifying, LogsIn
      <4>3. Fresh(q)'
        BY <1>1, <1>2, <2>2, <3>2, <4>1 DEF Same, Fresh
      <4> QED
        BY <4>2, <4>3
    <3> QED
      BY <3>1, <3>2
  <2>4. ASSUME NEW i \in Ids
        PROVE  Once(i)'
    <3>1. Once(i)
      BY <2>1 DEF Spent
    <3>2. \A q \in Requests : pc[q] \in {"markcode", "markbackup"} =>
            pc'[q] = pc[q] /\ in'[q] = in[q]
      BY <1>1, <1>3 DEF Same
    <3>3. CASE i = r
      BY <1>1, <1>2, <2>1, <2>2, <3>3 DEF Once
    <3>4. CASE i # r
      BY <1>1, <1>2, <2>2, <3>1, <3>2, <3>4 DEF Once
    <3> QED
      BY <3>3, <3>4
  <2> QED
    BY <2>3, <2>4 DEF Spent
<1> QED
  BY <1>1, <1>4, <1>5, <1>6, <1>7, <1>8 DEF FactorInv

(* No other request is inside the family.                                  *)
LEMMA Solo ==
  ASSUME FactorInv, "factor" \in hist.apart, NEW r \in Requests,
         pc[r] \in FactorCalls
  PROVE  \A q \in Requests \ {r} : pc[q] \notin FactorCalls
BY DEF FactorInv, Alone

(* Statements that write the method: nobody else is setting it up.         *)
LEMMA MethodWrites ==
  ASSUME AuthInv, FactorInv, NEW r \in Requests,
         NEW value, Goto(r, "done", value), NEW factors \in Factors,
         pc[r] \in {"upsert", "enable"}, hist' = hist,
         db'.factor = factors, db'.codes = db.codes, db'.backup = db.backup,
         db'.challenge = db.challenge,
         "factor" \in hist.apart /\ factors["totp"].state = "enabled" =>
           factors["totp"].secret \in hist.proven
  PROVE  FactorInv'
<1>1. pc'[r] = "done" /\ \A q \in Requests \ {r} : Same(q)
  BY Goes DEF Same
<1>2. FactorTyped'
  BY DEF FactorInv, FactorTyped
<1>3. Alone("factor", FactorCalls)'
  BY FactorAlone, FactorCallsAre
<1>4. \A q \in Requests : Shape(q)'
  <2>1. Shape(r)'
    BY <1>1 DEF Shape
  <2> QED
    BY <2>1, ShapesStay
<1>5. ASSUME "factor" \in hist.apart
      PROVE  SetUp'
  <2>1. ASSUME NEW q \in Requests
        PROVE  Setting(q)'
    <3>1. pc'[q] \notin FactorCalls
      BY <1>1, <1>5, Solo, FactorCallsAre DEF Same
    <3> QED
      BY <3>1, FactorCallsAre DEF Setting
  <2> QED
    BY <1>5, <2>1 DEF SetUp
<1>6. ASSUME "factor" \in hist.apart, ~hist.unmarked
      PROVE  Spent'
  <2>1. Spent /\ \A q \in Requests : Shape(q)
    BY <1>6 DEF FactorInv
  <2>2. Shrinks
    BY DEF Shrinks, IsCode, Unused
  <2>3. Verifying(r)' /\ Fresh(r)'
    BY <1>1 DEF Verifying, Fresh, Early
  <2> QED
    BY <1>1, <2>1, <2>2, <2>3, SpentFrame
<1> QED
  BY <1>2, <1>3, <1>4, <1>5, <1>6 DEF FactorInv

LEMMA StoreMethodInv ==
  ASSUME AuthInv, FactorInv, NEW r \in Requests,
         StoreMethod(r)
  PROVE  FactorInv'
<1> DEFINE m == in[r]
           order == Append(Remove(db.newest, m), m)
           new == [state  |-> IF db.factor[m].state = "none" THEN "pending"
                              ELSE db.factor[m].state,
                   secret |-> IF m = "totp" THEN r ELSE db.factor[m].secret]
           factors == [db.factor EXCEPT ![m] = new]
<1>1. /\ pc[r] = "upsert" /\ Goto(r, "done", loc[r]) /\ hist' = hist
      /\ db' = [db EXCEPT !.factor[m] = new, !.newest = order]
  BY Zenon DEF StoreMethod, At, Write
<1>2. db.factor \in Factors /\ r \in Ids
  BY RequestIds DEF FactorInv, FactorTyped
<1>3. factors \in Factors
  <2>1. m \in Methods => new \in [state : {"none", "pending", "enabled"},
                                       secret : Ids]
    BY <1>2 DEF Factors
  <2> HIDE DEF new
  <2> QED
    BY <1>2, <2>1 DEF Factors
<1>4. db.factor["totp"].state # "enabled" => factors["totp"].state # "enabled"
  BY <1>2 DEF Factors, Methods
<1> HIDE DEF order, new
<1>5. /\ db'.factor = factors /\ db'.codes = db.codes /\ db'.backup = db.backup
      /\ db'.challenge = db.challenge
  BY <1>1 DEF AuthInv, AuthTyped
<1>6. "factor" \in hist.apart => factors["totp"].state # "enabled"
  BY <1>1, <1>4 DEF FactorInv, SetUp, Setting
<1> HIDE DEF factors
<1> QED
  BY <1>1, <1>3, <1>5, <1>6, MethodWrites

LEMMA EnableMethodInv ==
  ASSUME AuthInv, FactorInv, NEW r \in Requests,
         EnableMethod(r)
  PROVE  FactorInv'
<1> DEFINE m == loc[r]
           factors == [db.factor EXCEPT ![m].state = "enabled"]
<1>1. /\ pc[r] = "enable" /\ Goto(r, "done", loc[r]) /\ hist' = hist
      /\ db' = [db EXCEPT !.factor[m].state = "enabled"]
  BY DEF EnableMethod, At, Write
<1>2. db.factor \in Factors
  BY DEF FactorInv, FactorTyped
<1>3. /\ factors \in Factors
      /\ factors["totp"].secret = db.factor["totp"].secret
      /\ m # "totp" => factors["totp"] = db.factor["totp"]
  BY <1>2 DEF Factors, Methods
<1>4. /\ db'.factor = factors /\ db'.codes = db.codes /\ db'.backup = db.backup
      /\ db'.challenge = db.challenge
  BY <1>1 DEF AuthInv, AuthTyped
<1>5. "factor" \in hist.apart /\ factors["totp"].state = "enabled" =>
        factors["totp"].secret \in hist.proven
  BY <1>1, <1>3 DEF FactorInv, SetUp, Setting
<1> HIDE DEF factors
<1> QED
  BY <1>1, <1>3, <1>4, <1>5, MethodWrites

(* Statements that accept something: it was not accepted before, and is    *)
(* about to be marked or has been.                                         *)
LEMMA AcceptIs ==
  ASSUME AuthInv, FactorInv, NEW id \in Ids, hist' = Accept(hist, id)
  PROVE  /\ hist'.accepted = [hist.accepted EXCEPT ![id] = @ + 1]
         /\ hist'.accepted \in [Ids -> Nat]
         /\ hist'.proven = hist.proven /\ hist'.unmarked = hist.unmarked
         /\ hist'.apart = hist.apart
<1>1. /\ DOMAIN hist = {"given", "spent", "proven", "accepted", "locked", "lapsed",
                        "unmarked", "apart"}
      /\ hist.accepted \in [Ids -> Nat]
  BY DEF AuthInv, AuthTyped, FactorInv, FactorTyped
<1>2. /\ hist'.accepted = [hist.accepted EXCEPT ![id] = @ + 1]
      /\ hist'.proven = hist.proven /\ hist'.unmarked = hist.unmarked
      /\ hist'.apart = hist.apart
  BY <1>1 DEF Accept
<1> QED
  BY <1>1, <1>2

LEMMA CodeAccepted ==
  ASSUME AuthInv, FactorInv, NEW r \in Requests,
         NEW next \in {"markcode", "markbackup"}, Goto(r, next, loc[r]), db' = db,
         hist' = Accept(hist, in[r].code), in[r].code \in Ids,
         \/ pc[r] \in {"setupcode", "logincode"} /\ next = "markcode"
            /\ Unused(in[r].code)
         \/ pc[r] = "backupcode" /\ next = "markbackup" /\ in[r].code \in db.backup
  PROVE  FactorInv'
<1> DEFINE id == in[r].code
<1>1. /\ hist'.accepted = [hist.accepted EXCEPT ![id] = @ + 1]
      /\ hist'.accepted \in [Ids -> Nat]
      /\ hist'.proven = hist.proven /\ hist'.unmarked = hist.unmarked
      /\ hist'.apart = hist.apart
  BY AcceptIs
<1>2. /\ pc'[r] = next /\ in'[r] = in[r] /\ loc'[r] = loc[r]
      /\ \A q \in Requests \ {r} : Same(q)
  BY Goes DEF Same
<1>3. FactorTyped'
  BY <1>1 DEF FactorInv, FactorTyped
<1>4. Alone("factor", FactorCalls)'
  BY <1>1, FactorAlone, FactorCallsAre
<1>5. Shape(r)'
  BY <1>2 DEF FactorInv, Shape, LogsIn
<1>6. \A q \in Requests : Shape(q)'
  BY <1>5, ShapesStay
<1>7. "factor" \in hist.apart => SetUp'
  <2>1. "factor" \in hist.apart => Setting(r)'
    BY <1>2 DEF FactorInv, SetUp, Setting, Shape, LogsIn
  <2> QED
    BY <1>1, <1>2, <2>1, SetUpFrame DEF FactorInv
<1>8. ASSUME "factor" \in hist.apart, ~hist.unmarked
      PROVE  Spent'
  <2>1. Spent /\ \A q \in Requests : Shape(q)
    BY <1>8 DEF FactorInv
  <2>2. \A i : (IsCode(i)' <=> IsCode(i)) /\ (Unused(i)' <=> Unused(i))
    BY DEF IsCode, Unused
  <2>3. \A q \in Requests : pc[q] \notin {"markcode", "markbackup"}
    BY <1>8, Solo, FactorCallsAre
  <2>4. Once(id) /\ (Unused(id) => IsCode(id))
    BY <2>1 DEF Spent, IsCode, Unused
  <2>5. hist.accepted[id] = 0 /\ hist'.accepted[id] = 1
    <3>1. hist.accepted[id] # 1 /\ hist.accepted[id] <= 1
      BY <2>3, <2>4 DEF Once
    <3>2. hist.accepted \in [Ids -> Nat]
      BY DEF FactorInv, FactorTyped
    <3> QED
      BY <1>1, <3>1, <3>2
  <2>6. \A i \in Ids \ {id} : hist'.accepted[i] = hist.accepted[i]
    BY <1>1 DEF FactorInv, FactorTyped
  <2>7. ASSUME NEW q \in Requests
        PROVE  Verifying(q)' /\ Fresh(q)'
    <3>1. Verifying(q) /\ Fresh(q) /\ q \in Ids
      BY <2>1, RequestIds DEF Spent
    <3>2. Verifying(q)'
      <4>1. Shape(q)
        BY <2>1
      <4> QED
        BY <1>2, <3>1, <4>1 DEF Same, Verifying, Shape, LogsIn
    <3>3. pc[q] \in Early => q # id
      BY <2>4, <3>1 DEF Fresh
    <3>4. Fresh(q)'
      BY <1>2, <2>2, <2>6, <3>1, <3>3 DEF Same, Fresh, Early
    <3> QED
      BY <3>2, <3>4
  <2>8. ASSUME NEW i \in Ids
        PROVE  Once(i)'
    <3>1. Once(i)
      BY <2>1 DEF Spent
    <3>2. CASE i = id
      BY <1>2, <2>2, <2>4, <2>5, <3>2 DEF Once
    <3>3. CASE i # id
      <4>1. hist.accepted[i] = 1 => ~Unused(i) /\ i \notin db.backup
        BY <2>3, <3>1 DEF Once
      <4> QED
        BY <2>2, <2>6, <3>1, <3>3, <4>1 DEF Once
    <3> QED
      BY <3>2, <3>3
  <2> QED
    BY <2>7, <2>8 DEF Spent
<1> QED
  BY <1>1, <1>3, <1>4, <1>6, <1>7, <1>8 DEF FactorInv

LEMMA AcceptInv ==
  ASSUME AuthInv, FactorInv, NEW r \in Requests,
         CheckCode(r) \/ VerifyBackupCode(r)
  PROVE  FactorInv'
<1>1. ASSUME Branch(r, "done"), pc[r] \notin {"markcode", "markbackup"}
      PROVE  FactorInv'
  <2>1. "done" \notin FactorCalls /\ "done" \notin Early
    BY FactorCallsAre DEF Early
  <2>2. Wanes
    BY <1>1, BesideWanes DEF Branch, Read, FactorBeside
  <2> QED
    BY <1>1, <2>1, <2>2, OthersGo DEF Branch, Read
<1>2. CASE CheckCode(r)
  <2>1. pc[r] \in {"setupcode", "logincode"}
    BY <1>2 DEF CheckCode, At
  <2>2. CASE \E k \in DOMAIN db.codes :
               /\ db.codes[k] = Code(in[r].code)
               /\ \A j \in DOMAIN db.codes : j > k => db.codes[j].state = "used"
    <3>1. Write(r, "markcode", db, Accept(hist, in[r].code))
      BY <1>2, <2>2 DEF CheckCode
    <3>2. PICK k \in DOMAIN db.codes : db.codes[k] = Code(in[r].code)
      BY <2>2
    <3>3. db.codes[k] \in Codes
      BY DEF FactorInv, FactorTyped
    <3>4. /\ db.codes[k].id = in[r].code /\ db.codes[k].state = "open"
          /\ in[r].code \in Ids
      BY <3>2, <3>3 DEF Code, Codes
    <3>5. Unused(in[r].code)
      BY <3>4 DEF Unused
    <3> QED
      BY <2>1, <3>1, <3>4, <3>5, CodeAccepted DEF Write
  <2> QED
    BY <1>1, <1>2, <2>1, <2>2 DEF CheckCode
<1>3. CASE VerifyBackupCode(r)
  <2>1. pc[r] = "backupcode"
    BY <1>3 DEF VerifyBackupCode, At
  <2>2. CASE in[r].code \notin db.backup
    BY <1>1, <1>3, <2>1, <2>2 DEF VerifyBackupCode
  <2>3. CASE in[r].code \in db.backup
    <3>1. in[r].code \in Ids
      BY <2>3, RequestIds DEF FactorInv, FactorTyped
    <3>2. Write(r, "markbackup", db, Accept(hist, in[r].code))
      BY <1>3, <2>3 DEF VerifyBackupCode
    <3> QED
      BY <2>1, <2>3, <3>1, <3>2, CodeAccepted DEF Write
  <2> QED
    BY <2>2, <2>3
<1> QED
  BY <1>2, <1>3

(* Statements that mark what was accepted: nobody else is about to.        *)
LEMMA Marked ==
  ASSUME AuthInv, FactorInv, NEW r \in Requests,
         NEW next \in {"verified", "backups"}, Goto(r, next, loc[r]),
         next = "verified" <=> LogsIn(r), pc[r] \in {"markcode", "markbackup"},
         FactorTyped', Shrinks, db'.factor = db.factor, db'.challenge = db.challenge,
         hist' = hist,
         NEW id, id = in[r].code, pc[r] = "markcode" => ~Unused(id)',
         pc[r] = "markbackup" => next = "verified" /\ id \notin db'.backup
  PROVE  FactorInv'
<1>1. /\ pc'[r] = next /\ in'[r] = in[r] /\ loc'[r] = loc[r]
      /\ \A q \in Requests \ {r} : Same(q)
  BY Goes DEF Same
<1>2. Alone("factor", FactorCalls)'
  BY FactorAlone, FactorCallsAre
<1>3. Shape(r)'
  BY <1>1 DEF FactorInv, Shape, LogsIn
<1>4. \A q \in Requests : Shape(q)'
  BY <1>3, ShapesStay
<1>5. "factor" \in hist.apart => SetUp'
  <2>1. "factor" \in hist.apart => Setting(r)'
    BY <1>1 DEF FactorInv, SetUp, Setting, LogsIn
  <2> QED
    BY <1>1, <2>1, SetUpFrame DEF FactorInv
<1>6. ASSUME "factor" \in hist.apart, ~hist.unmarked
      PROVE  Spent'
  <2>1. Spent /\ \A q \in Requests : Shape(q)
    BY <1>6 DEF FactorInv
  <2>2. \A q \in Requests \ {r} : pc[q] \notin {"markcode", "markbackup"}
    BY <1>6, Solo, FactorCallsAre
  <2>3. ASSUME NEW q \in Requests
        PROVE  Verifying(q)' /\ Fresh(q)'
    <3>1. Verifying(q) /\ Fresh(q) /\ q \in Ids
      BY <2>1, RequestIds DEF Spent
    <3>2. Verifying(q)'
      BY <1>1, <3>1 DEF Same, Verifying, LogsIn
    <3>3. pc'[q] \in Early => pc[q] \in Early
      BY <1>1 DEF Same, Early
    <3>4. Fresh(q)'
      BY <3>1, <3>3 DEF Fresh, Shrinks
    <3> QED
      BY <3>2, <3>4
  <2>4. ASSUME NEW i \in Ids
        PROVE  Once(i)'
    <3>1. /\ Once(i) /\ (IsCode(i)' => IsCode(i)) /\ (Unused(i)' => Unused(i))
          /\ i \in db'.backup => i \in db.backup
      BY <2>1 DEF Spent, Shrinks
    <3>2. hist.accepted[i] = 1 => ~Unused(i)'
      BY <2>2, <3>1 DEF Once
    <3>3. hist.accepted[i] = 1 => i \notin db'.backup
      BY <2>2, <3>1 DEF Once
    <3> QED
      BY <3>1, <3>2, <3>3 DEF Once
  <2> QED
    BY <2>3, <2>4 DEF Spent
<1> QED
  BY <1>2, <1>4, <1>5, <1>6 DEF FactorInv

LEMMA MarkCodeInv ==
  ASSUME AuthInv, FactorInv, NEW r \in Requests,
         MarkCode(r)
  PROVE  FactorInv'
<1> DEFINE id == in[r].code
           next == AfterCode(r)
           marked == [k \in DOMAIN db.codes |->
                        IF db.codes[k].id = id THEN [db.codes[k] EXCEPT !.state = "used"]
                        ELSE db.codes[k]]
<1>1. /\ pc[r] = "markcode" /\ Goto(r, next, loc[r]) /\ hist' = hist
      /\ db' = [db EXCEPT !.codes = marked]
  BY DEF MarkCode, At, Write
<1>2. next \in {"verified", "backups"} /\ (next = "verified" <=> LogsIn(r))
  BY DEF AfterCode, LogsIn
<1>3. /\ db.codes \in Seq(Codes)
      /\ \A k \in DOMAIN db.codes : db.codes[k] \in Codes
  BY DEF FactorInv, FactorTyped
<1>4. /\ DOMAIN marked = DOMAIN db.codes
      /\ \A k \in DOMAIN marked :
           /\ marked[k] \in Codes /\ marked[k].id = db.codes[k].id
           /\ marked[k].state # "used" =>
                marked[k].id # id /\ marked[k].state = db.codes[k].state
  BY <1>3 DEF Codes
<1>5. marked \in Seq(Codes)
  <2>1. DOMAIN db.codes = 1 .. Len(db.codes) /\ Len(db.codes) \in Nat
    BY <1>3
  <2>2. marked = [k \in 1 .. Len(db.codes) |-> marked[k]]
    BY <1>4, <2>1
  <2> HIDE DEF marked
  <2>3. \A k \in 1 .. Len(db.codes) : marked[k] \in Codes
    BY <1>4, <2>1
  <2>4. [k \in 1 .. Len(db.codes) |-> marked[k]] \in Seq(Codes)
    BY <2>1, <2>3
  <2> QED
    BY <2>2, <2>4
<1> HIDE DEF marked, next
<1>6. /\ db'.factor = db.factor /\ db'.codes = marked /\ db'.backup = db.backup
      /\ db'.challenge = db.challenge
  BY <1>1 DEF AuthInv, AuthTyped
<1>7. FactorTyped'
  BY <1>1, <1>5, <1>6 DEF FactorInv, FactorTyped
<1>8. Shrinks /\ \A i : i = id => ~Unused(i)'
  BY <1>4, <1>6 DEF Shrinks, IsCode, Unused
<1> QED
  BY <1>1, <1>2, <1>6, <1>7, <1>8, Marked

LEMMA MarkBackupCodeInv ==
  ASSUME AuthInv, FactorInv, NEW r \in Requests,
         MarkBackupCode(r)
  PROVE  FactorInv'
<1>1. /\ pc[r] = "markbackup" /\ Goto(r, "verified", loc[r]) /\ hist' = hist
      /\ db' = [db EXCEPT !.backup = @ \ {in[r].code}]
  BY DEF MarkBackupCode, At, Write
<1>2. LogsIn(r)
  BY <1>1 DEF FactorInv, Shape
<1>3. /\ db'.factor = db.factor /\ db'.codes = db.codes
      /\ db'.backup = db.backup \ {in[r].code} /\ db'.challenge = db.challenge
  BY <1>1 DEF AuthInv, AuthTyped
<1>4. FactorTyped'
  BY <1>1, <1>3 DEF FactorInv, FactorTyped
<1>5. Shrinks
  BY <1>3 DEF Shrinks, IsCode, Unused
<1> QED
  BY <1>1, <1>2, <1>3, <1>4, <1>5, Marked

LEMMA Mark2FASessionInv ==
  ASSUME AuthInv, FactorInv, NEW r \in Requests,
         Mark2FASession(r)
  PROVE  FactorInv'
<1> DEFINE c == in[r].of
<1>1. /\ pc[r] = "verified" /\ Goto(r, "done", loc[r])
      /\ hist' = Accept(hist, c)
      /\ db' = [db EXCEPT !.challenge[c] = "verified"]
  BY DEF Mark2FASession, At, Write
<1>2. c \in Requests /\ c \in Ids /\ LogsIn(r)
  BY <1>1, RequestIds DEF FactorInv, Shape
<1>3. /\ db'.factor = db.factor /\ db'.codes = db.codes /\ db'.backup = db.backup
      /\ db'.challenge = [db.challenge EXCEPT ![c] = "verified"]
  BY <1>1 DEF AuthInv, AuthTyped
<1>4. /\ hist'.accepted = [hist.accepted EXCEPT ![c] = @ + 1]
      /\ hist'.accepted \in [Ids -> Nat]
      /\ hist'.proven = hist.proven /\ hist'.unmarked = hist.unmarked
      /\ hist'.apart = hist.apart
  BY <1>1, <1>2, AcceptIs
<1>5. /\ DOMAIN db'.challenge = Requests /\ db'.challenge[c] = "verified"
      /\ \A q \in Requests \ {c} : db'.challenge[q] = db.challenge[q]
      /\ \A i \in Ids \ {c} : hist'.accepted[i] = hist.accepted[i]
  BY <1>2, <1>3, <1>4 DEF FactorInv, FactorTyped
<1>6. pc'[r] = "done" /\ \A q \in Requests \ {r} : Same(q)
  BY <1>1, Goes DEF Same
<1>7. FactorTyped'
  BY <1>3, <1>4, <1>5 DEF FactorInv, FactorTyped
<1>8. Alone("factor", FactorCalls)'
  BY <1>1, <1>4, FactorAlone, FactorCallsAre
<1>9. \A q \in Requests : Shape(q)'
  <2>1. Shape(r)'
    BY <1>6 DEF Shape
  <2> QED
    BY <1>1, <2>1, ShapesStay
<1>10. "factor" \in hist.apart => SetUp'
  <2>1. Setting(r)'
    BY <1>6 DEF Setting
  <2> QED
    BY <1>3, <1>4, <1>6, <2>1, SetUpFrame DEF FactorInv
<1>11. ASSUME "factor" \in hist.apart, ~hist.unmarked
       PROVE  Spent'
  <2>1. Spent
    BY <1>11 DEF FactorInv
  <2>2. db.challenge[c] \in {"open", "expired"} /\ Once(c)
    BY <1>1, <1>2, <2>1 DEF Spent, Verifying
  <2>3. hist.accepted[c] = 0 /\ hist'.accepted[c] = 1
    <3>1. hist.accepted[c] # 1 /\ hist.accepted[c] <= 1
      BY <1>2, <2>2 DEF Once
    <3>2. hist.accepted \in [Ids -> Nat]
      BY DEF FactorInv, FactorTyped
    <3> QED
      BY <1>2, <1>4, <3>1, <3>2
  <2>4. ~IsCode(c) /\ c \notin db.backup
    BY <1>2, <2>2 DEF Once
  <2>5. /\ \A i : (IsCode(i)' <=> IsCode(i)) /\ (Unused(i)' <=> Unused(i))
        /\ \A i : Unused(i) => IsCode(i)
    BY <1>3 DEF IsCode, Unused
  <2>6. \A q \in Requests \ {r} : pc[q] \notin FactorCalls
    BY <1>1, <1>11, Solo, FactorCallsAre
  <2>7. ASSUME NEW q \in Requests
        PROVE  Verifying(q)' /\ Fresh(q)'
    <3>1. pc'[q] \notin FactorCalls
      BY <1>6, <2>6, FactorCallsAre DEF Same
    <3>2. Verifying(q)'
      BY <3>1, FactorCallsAre DEF Verifying
    <3>3. Fresh(q) /\ q \in Ids
      BY <2>1, RequestIds DEF Spent
    <3>4. pc'[q] \in Early => pc[q] \in Early /\ q # c
      BY <1>6, <2>2, <3>3 DEF Same, Early, Fresh
    <3>5. Fresh(q)'
      BY <1>3, <1>5, <2>5, <3>3, <3>4 DEF Fresh
    <3> QED
      BY <3>2, <3>5
  <2>8. ASSUME NEW i \in Ids
        PROVE  Once(i)'
    <3>1. Once(i)
      BY <2>1 DEF Spent
    <3>2. CASE i = c
      BY <1>3, <1>5, <2>3, <2>4, <2>5, <3>2 DEF Once
    <3>3. CASE i # c
      <4>1. hist.accepted[i] = 1 => ~Unused(i) /\ i \notin db.backup
        BY <1>1, <2>6, <3>1, FactorCallsAre DEF Once
      <4> QED
        BY <1>3, <1>5, <2>5, <3>1, <3>3, <4>1 DEF Once
    <3> QED
      BY <3>2, <3>3
  <2> QED
    BY <2>7, <2>8 DEF Spent
<1> QED
  BY <1>4, <1>7, <1>8, <1>9, <1>10, <1>11 DEF FactorInv

(* A write that fails: either the request ends, or a use goes unmarked.    *)
LEMMA StoreFailsInv ==
  ASSUME AuthInv, FactorInv, NEW r \in Requests,
         StoreFails(r)
  PROVE  FactorInv'
<1>1. DOMAIN hist = {"given", "spent", "proven", "accepted", "locked", "lapsed",
                     "unmarked", "apart"}
  BY DEF AuthInv, AuthTyped
<1>2. /\ hist'.accepted = hist.accepted /\ hist'.proven = hist.proven
      /\ hist'.apart = hist.apart /\ db' = db
      /\ pc[r] \in {"markcode", "markbackup", "verified"} => hist'.unmarked
      /\ hist' = [hist EXCEPT !.unmarked =
                    @ \/ pc[r] \in {"markcode", "markbackup", "verified"}]
  BY <1>1 DEF StoreFails
<1>3. CASE pc[r] \in {"markcode", "markbackup", "verified"}
  <2>1. PICK next \in {"done", "backups", "verified"} :
          /\ Goto(r, next, loc[r])
          /\ next = "backups" => pc[r] = "markcode" /\ ~LogsIn(r)
          /\ next = "verified" => pc[r] = "markbackup" \/ LogsIn(r)
    BY <1>3 DEF StoreFails, AfterCode, At, LogsIn
  <2>2. /\ pc'[r] = next
        /\ next # "done" => in'[r] = in[r] /\ loc'[r] = loc[r]
        /\ \A q \in Requests \ {r} : Same(q)
    BY <2>1, Goes DEF Same
  <2>3. FactorTyped'
    BY <1>2 DEF FactorInv, FactorTyped
  <2>4. Alone("factor", FactorCalls)'
    BY <1>2, <1>3, <2>1, FactorAlone, FactorCallsAre
  <2>5. \A q \in Requests : Shape(q)'
    <3>1. Shape(r)'
      BY <1>3, <2>1, <2>2 DEF FactorInv, Shape, LogsIn
    <3> QED
      BY <2>1, <3>1, ShapesStay
  <2>6. "factor" \in hist.apart => SetUp'
    <3>1. "factor" \in hist.apart => Setting(r)'
      BY <2>1, <2>2 DEF FactorInv, SetUp, Setting
    <3> QED
      BY <1>2, <2>2, <3>1, SetUpFrame DEF FactorInv
  <2> QED
    BY <1>2, <1>3, <2>3, <2>4, <2>5, <2>6 DEF FactorInv
<1>4. CASE pc[r] \notin {"markcode", "markbackup", "verified"}
  <2>1. Goto(r, "done", loc[r])
    BY <1>4 DEF StoreFails, At
  <2>2. ~hist'.unmarked => ~hist.unmarked
    BY <1>1, <1>2
  <2>3. pc'[r] = "done" /\ \A q \in Requests \ {r} : Same(q)
    BY <2>1, Goes DEF Same
  <2>4. FactorTyped' /\ Shrinks
    BY <1>2 DEF FactorInv, FactorTyped, Shrinks, IsCode, Unused
  <2>5. Alone("factor", FactorCalls)'
    BY <1>2, <2>1, FactorAlone, FactorCallsAre
  <2>6. Shape(r)' /\ Setting(r)' /\ Verifying(r)' /\ Fresh(r)'
    BY <2>3 DEF Shape, Setting, Verifying, Fresh, Early
  <2>7. \A q \in Requests : Shape(q)'
    BY <2>1, <2>6, ShapesStay
  <2>8. "factor" \in hist.apart => SetUp'
    BY <1>2, <2>3, <2>6, SetUpFrame DEF FactorInv
  <2>9. ASSUME "factor" \in hist.apart, ~hist.unmarked
        PROVE  Spent'
    <3>1. Spent /\ \A q \in Requests : Shape(q)
      BY <2>9 DEF FactorInv
    <3> QED
      BY <1>2, <1>4, <2>3, <2>4, <2>6, <3>1, SpentFrame
  <2> QED
    BY <1>2, <2>2, <2>4, <2>5, <2>7, <2>8, <2>9 DEF FactorInv
<1> QED
  BY <1>3, <1>4

(* A request begins: it has made nothing yet.                              *)
LEMMA FactorBegins ==
  ASSUME AuthInv, FactorInv, NEW r \in Requests,
         NEW call, NEW argument, Begin(r, call, argument),
         call \in FactorCalls => call \in {"enabled", "pending", "challenge"},
         call = "pending" => "of" \notin DOMAIN argument,
         call = "challenge" => "of" \in DOMAIN argument /\ argument.of \in Requests
  PROVE  FactorInv'
<1>1. /\ DOMAIN hist = {"given", "spent", "proven", "accepted", "locked", "lapsed",
                        "unmarked", "apart"}
      /\ DOMAIN pc = Requests /\ DOMAIN in = Requests
  BY DEF AuthInv, AuthTyped
<1>2. /\ pc[r] = "new" /\ pc' = [pc EXCEPT ![r] = call]
      /\ in' = [in EXCEPT ![r] = argument] /\ UNCHANGED <<db, loc>>
      /\ hist' = [hist EXCEPT !.apart = {f \in @ : call \in Family[f] =>
                              \A q \in Requests : pc[q] \notin Family[f]}]
  BY DEF Begin, At
<1>3. /\ hist'.accepted = hist.accepted /\ hist'.proven = hist.proven
      /\ hist'.unmarked = hist.unmarked
      /\ hist'.apart = {f \in hist.apart : call \in Family[f] =>
                          \A q \in Requests : pc[q] \notin Family[f]}
  BY <1>1, <1>2
<1>4. /\ pc'[r] = call /\ in'[r] = argument
      /\ \A q \in Requests \ {r} : Same(q)
  BY <1>1, <1>2 DEF Same
<1>5. FactorTyped' /\ Shrinks
  BY <1>2, <1>3 DEF FactorInv, FactorTyped, Shrinks, IsCode, Unused
<1>6. Alone("factor", FactorCalls)'
  <2> SUFFICES ASSUME "factor" \in hist'.apart,
                      NEW p \in Requests, NEW q \in Requests,
                      pc'[p] \in FactorCalls, pc'[q] \in FactorCalls
               PROVE  p = q
    BY DEF Alone, FactorCalls, Family
  <2>1. /\ "factor" \in hist.apart
        /\ call \in FactorCalls => \A o \in Requests : pc[o] \notin FactorCalls
    BY <1>3 DEF FactorCalls
  <2> QED
    BY <1>4, <2>1 DEF FactorInv, Alone, Same
<1>7. Shape(r)' /\ Setting(r)' /\ Verifying(r)'
  BY <1>4, FactorCallsAre DEF Shape, Setting, Verifying, LogsIn
<1>8. \A q \in Requests : Shape(q)'
  <2>1. ASSUME NEW q \in Requests, q # r
        PROVE  Shape(q)'
    BY <1>4, <2>1 DEF FactorInv, Shape, LogsIn, Same
  <2> QED
    BY <1>7, <2>1
<1>9. hist'.apart \subseteq hist.apart
  BY <1>3
<1>10. "factor" \in hist.apart => SetUp'
  BY <1>2, <1>3, <1>4, <1>7, SetUpFrame DEF FactorInv
<1>11. ASSUME "factor" \in hist.apart, ~hist.unmarked
       PROVE  Spent'
  <2>1. Spent /\ \A q \in Requests : Shape(q)
    BY <1>11 DEF FactorInv
  <2>2. Fresh(r)'
    BY <1>2, <1>3, <2>1 DEF Spent, Fresh, Early, IsCode
  <2> QED
    BY <1>2, <1>3, <1>4, <1>5, <1>7, <2>1, <2>2, SpentFrame
<1> QED
  BY <1>3, <1>5, <1>6, <1>8, <1>9, <1>10, <1>11 DEF FactorInv

LEMMA FactorStarts ==
  ASSUME AuthInv, FactorInv, NEW r \in Requests,
         Start(r)
  PROVE  FactorInv'
<1>1. ASSUME NEW argument,
             NEW call \in {"exists", "locked", "valid", "verify", "redeem", "forgot",
                           "resend", "read", "logout", "revoke", "enabled", "hash",
                           "newkey", "endkey"},
             Begin(r, call, argument)
      PROVE  FactorInv'
  <2>1. /\ call \in FactorCalls => call = "enabled"
        /\ call # "pending" /\ call # "challenge"
    BY <1>1, FactorCallsAre
  <2> QED
    BY <1>1, <2>1, FactorBegins
<1>2. ASSUME NEW c \in Requests, NEW p,
             Begin(r, "challenge", [of |-> c, code |-> p])
      PROVE  FactorInv'
  <2> DEFINE argument == [of |-> c, code |-> p]
  <2>1. "of" \in DOMAIN argument /\ argument.of = c
    OBVIOUS
  <2> HIDE DEF argument
  <2>2. Begin(r, "challenge", argument)
    BY <1>2 DEF argument
  <2> QED
    BY <2>1, <2>2, FactorBegins
<1>3. ASSUME NEW p, Begin(r, "pending", [code |-> p])
      PROVE  FactorInv'
  <2> DEFINE argument == [code |-> p]
  <2>1. "of" \notin DOMAIN argument
    OBVIOUS
  <2> HIDE DEF argument
  <2>2. Begin(r, "pending", argument)
    BY <1>3 DEF argument
  <2> QED
    BY <2>1, <2>2, FactorBegins
<1>4. \/ \E call \in {"exists", "locked", "valid", "verify", "redeem", "forgot",
                      "resend", "read", "logout", "revoke", "enabled", "hash",
                      "newkey", "endkey"} :
           \E argument : Begin(r, call, argument)
      \/ \E c \in Requests : \E p : Begin(r, "challenge", [of |-> c, code |-> p])
      \/ \E p : Begin(r, "pending", [code |-> p])
  BY Zenon DEF Start
<1> QED
  BY <1>1, <1>2, <1>3, <1>4

(* Time passes: codes and challenges expire.                               *)
LEMMA FactorWaits ==
  ASSUME AuthInv, FactorInv, Wanes, UNCHANGED <<pc, in, loc>>
  PROVE  FactorInv'
<1>1. \A q \in Requests : Same(q)
  BY DEF Same
<1>2. Alone("factor", FactorCalls)'
  BY DEF FactorInv, Alone, Wanes, FactorCalls, Family
<1>3. \A q \in Requests : Shape(q)'
  BY DEF FactorInv, Shape, LogsIn
<1>4. "factor" \in hist.apart => SetUp'
  BY <1>1, SetUpFrame DEF FactorInv, Wanes
<1>5. ASSUME "factor" \in hist.apart, ~hist.unmarked
      PROVE  Spent'
  <2>1. Spent /\ \A q \in Requests : Shape(q)
    BY <1>5 DEF FactorInv
  <2> QED
    BY <1>1, <2>1, SpentFrame DEF Wanes
<1> QED
  BY <1>2, <1>3, <1>4, <1>5 DEF FactorInv, Wanes

LEMMA FactorTime ==
  ASSUME AuthInv, FactorInv,
         LockExpires \/ Expiry \/ Deactivate
  PROVE  FactorInv'
<1>1. /\ DOMAIN db = {"user", "recent", "lock", "session", "factor", "newest", "codes",
                      "backup", "challenge", "stored", "cooling", "key"}
      /\ DOMAIN hist = {"given", "spent", "proven", "accepted", "locked", "lapsed",
                        "unmarked", "apart"}
  BY DEF AuthInv, AuthTyped
<1>2. UNCHANGED <<pc, in, loc>>
  BY DEF LockExpires, Expiry, Expires, Deactivate
<1>3. ASSUME FactorBeside
      PROVE  FactorInv'
  BY <1>2, <1>3, BesideWanes, FactorWaits
<1>4. CASE LockExpires
  BY <1>1, <1>3, <1>4 DEF LockExpires, Expires, FactorBeside
<1>5. CASE Deactivate
  BY <1>1, <1>3, <1>5 DEF Deactivate, FactorBeside
<1>6. CASE Expiry
  <2>1. hist' = hist
    BY <1>6 DEF Expiry
  <2>2. CASE Expires([db EXCEPT !.recent = @ - 1])
    BY <1>1, <1>3, <2>1, <2>2 DEF Expires, FactorBeside
  <2>3. CASE Expires([db EXCEPT !.cooling = FALSE])
    BY <1>1, <1>3, <2>1, <2>3 DEF Expires, FactorBeside
  <2>4. CASE \E s \in Ids : Expires([db EXCEPT !.session[s].state = "expired"])
    BY <1>1, <1>3, <2>1, <2>4 DEF Expires, FactorBeside
  <2>5. CASE \E c \in Requests :
               /\ db.challenge[c] = "open"
               /\ Expires([db EXCEPT !.challenge[c] = "expired"])
    <3>1. PICK c \in Requests : /\ db.challenge[c] = "open"
                                /\ db' = [db EXCEPT !.challenge[c] = "expired"]
      BY <2>5 DEF Expires
    <3>2. /\ db'.factor = db.factor /\ db'.codes = db.codes /\ db'.backup = db.backup
          /\ db'.challenge = [db.challenge EXCEPT ![c] = "expired"]
      BY <1>1, <3>1
    <3>3. Wanes
      BY <2>1, <3>1, <3>2 DEF FactorInv, FactorTyped, Wanes, Shrinks, IsCode, Unused
    <3> QED
      BY <1>2, <3>3, FactorWaits
  <2>6. CASE \E k \in DOMAIN db.codes :
               /\ db.codes[k].state = "open"
               /\ Expires([db EXCEPT !.codes[k].state = "expired"])
    <3>1. PICK k \in DOMAIN db.codes : /\ db.codes[k].state = "open"
                                       /\ db' = [db EXCEPT !.codes[k].state = "expired"]
      BY <2>6 DEF Expires
    <3> DEFINE late == [db.codes EXCEPT ![k].state = "expired"]
    <3>2. db.codes \in Seq(Codes) /\ db.codes[k] \in Codes
      BY <3>1 DEF FactorInv, FactorTyped
    <3>3. [db.codes[k] EXCEPT !.state = "expired"] \in Codes
      BY <3>2 DEF Codes
    <3>4. late \in Seq(Codes) /\ DOMAIN late = DOMAIN db.codes
      BY <3>1, <3>2, <3>3
    <3>5. \A j \in DOMAIN late :
            /\ late[j].id = db.codes[j].id
            /\ late[j].state # "used" => db.codes[j].state # "used"
      BY <3>1, <3>2 DEF Codes
    <3> HIDE DEF late
    <3>6. /\ db'.factor = db.factor /\ db'.codes = late /\ db'.backup = db.backup
          /\ db'.challenge = db.challenge
      BY <1>1, <3>1 DEF late
    <3>7. Wanes
      BY <2>1, <3>4, <3>5, <3>6 DEF FactorInv, FactorTyped, Wanes, Shrinks, IsCode, Unused
    <3> QED
      BY <1>2, <3>7, FactorWaits
  <2> QED
    BY <1>6, <2>2, <2>3, <2>4, <2>5, <2>6 DEF Expiry
<1> QED
  BY <1>4, <1>5, <1>6

LEMMA FactorStep ==
  ASSUME AuthInv, FactorInv, [Next]_vars
  PROVE  FactorInv'
<1>1. CASE UNCHANGED vars
  <2>1. UNCHANGED <<db, pc, in, loc, hist>>
    BY <1>1 DEF vars
  <2> QED
    BY <2>1, BesideWanes, FactorWaits DEF FactorBeside
<1>2. ASSUME NEW r \in Requests,
        \/ Start(r)
        \/ UserExists(r) \/ CreateUser(r)
        \/ IsAccountLocked(r) \/ GetUser(r) \/ Has2FAEnabled(r)
        \/ Create2FASession(r)
        \/ CreateSession(r) \/ CountFailed(r) \/ InsertAttempt(r)
        \/ IsSessionValid(r) \/ IsActive(r) \/ UpdateSession(r)
        \/ Logout(r) \/ RevokeSession(r) \/ GetPassword(r)
        \/ ChangePassword(r)
        \/ GetResetUser(r) \/ CanRequestReset(r) \/ StoreResetToken(r)
        \/ ResendVerification(r) \/ VerifyEmail(r) \/ ResetPassword(r)
        \/ Check2FA(r) \/ StoreCode(r) \/ StoreMethod(r)
        \/ GetPending2FA(r) \/ CheckCode(r) \/ MarkCode(r)
        \/ GenerateBackupCodes(r) \/ EnableMethod(r)
        \/ Get2FASession(r) \/ Get2FAMethod(r) \/ VerifyBackupCode(r)
        \/ MarkBackupCode(r) \/ Mark2FASession(r)
        \/ GetHash(r) \/ DisableMethods(r) \/ DropBackupCodes(r)
        \/ CreateAPIKey(r) \/ RevokeAPIKey(r)
        \/ StoreFails(r)
      PROVE  FactorInv'
  BY <1>2, FactorStarts, OthersRead, OthersWrite, Create2FASessionInv, Check2FAInv,
     StoreCodeInv, StoreMethodInv, GetPending2FAInv, AcceptInv, MarkCodeInv,
     GenerateBackupCodesInv, EnableMethodInv, Get2FAInv, MarkBackupCodeInv,
     Mark2FASessionInv, StoreFailsInv
<1>3. CASE Quiet
  BY <1>1, <1>3 DEF Quiet
<1> QED
  BY <1>1, <1>2, <1>3, FactorTime DEF Next

LEMMA FactorInvHolds == Spec => []FactorInv
<1>1. Init => FactorInv
  BY FactorStart
<1>2. AuthInv /\ FactorInv /\ [Next]_vars => FactorInv'
  BY FactorStep
<1>3. Spec => []AuthInv
  BY AuthInvHolds
<1> QED
  BY <1>1, <1>2, <1>3, PTL DEF Spec

(* The handlers of two_factor.go: as long as no two of them overlap, an    *)
(* enabled authenticator has a secret whose code was checked and, as long  *)
(* as the writes that mark them succeed, a code, a backup code and a       *)
(* challenge are accepted at most once.                                    *)
THEOREM FactorSoundCorrect == Spec => []FactorSound
<1>1. FactorInv => FactorSound
  BY DEF FactorInv, SetUp, Spent, Once, FactorSound, OneTimeCodes,
         EnabledWasVerified
<1> QED
  BY <1>1, FactorInvHolds, PTL
=============================================================================
