---------------------------- MODULE KratosCache ----------------------------
(***************************************************************************)
(* The session middlewares of ory-kratos-integration: the service looks    *)
(* for a copy of a request's session in Redis and otherwise asks Kratos,   *)
(* and keeps a copy, without a time to live, of a session that is active.  *)
(* A copy is stored under the session's ID and looked for under the first  *)
(* part of the cookie, which is whatever the client sends: only Kratos     *)
(* knows the cookies it made.  Nothing removes copies.                     *)
(***************************************************************************)
EXTENDS Naturals

CONSTANTS
  CookieRequests,  \* requests of a behaviour
  Identities,      \* sessions at Kratos, by ID
  CookieID         \* first part of the cookie Kratos made for each session

ASSUME KratosAssumption == DOMAIN CookieID = Identities

NoIdentity == ""

VARIABLES
  kratos,          \* each session at Kratos (external)
  copies,          \* IDs with a key kratos:session:<id>
  visit,           \* each request: where it is, the first part of its cookie
                   \* and the session Kratos made that cookie for, whether it
                   \* needs a session, whether that session had ended when it
                   \* came, and the session whose user it goes on as
  vouched          \* sessions Kratos has called active

kratosVars == <<kratos, copies, visit, vouched>>

NoVisit == [at |-> "new", part |-> "", of |-> NoIdentity, required |-> FALSE,
            late |-> FALSE, as |-> NoIdentity]

KratosTypeOK ==
  /\ kratos \in [Identities -> {"none", "active", "ended"}]
  /\ copies \subseteq Identities /\ vouched \subseteq Identities
  /\ \A r \in CookieRequests :
       /\ visit[r].at \in {"new", "lookup", "ask", "store", "passed", "refused"}
       /\ visit[r].of \in Identities \cup {NoIdentity}
       /\ visit[r].as \in Identities \cup {NoIdentity}

KratosInit ==
  /\ kratos = [s \in Identities |-> "none"]
  /\ copies = {} /\ vouched = {}
  /\ visit = [r \in CookieRequests |-> NoVisit]

Visits(r, at) == visit[r].at = at
GoesTo(r, at) == visit' = [visit EXCEPT ![r].at = at]
\* The request goes on as the user of session s, of which a copy is made.
GoesAs(r, s) == visit' = [visit EXCEPT ![r].at = "store", ![r].as = s]

\* The flows the service starts end at Kratos, which makes and ends sessions.
KratosSessions ==
  /\ \E s \in Identities :
       \/ kratos[s] = "none" /\ kratos' = [kratos EXCEPT ![s] = "active"]
       \/ kratos[s] = "active" /\ kratos' = [kratos EXCEPT ![s] = "ended"]
  /\ UNCHANGED <<copies, visit, vouched>>

\* A request to an endpoint behind SessionMiddleware or
\* OptionalSessionMiddleware, with the cookie Kratos made for a session, or
\* with one Kratos did not make and whose first part is any session's ID.  One
\* without a cookie is refused or goes on as nobody, and changes nothing.
ComesIn(r) ==
  /\ Visits(r, "new")
  /\ \E s \in Identities, required \in BOOLEAN :
       \/ /\ kratos[s] # "none"
          /\ visit' = [visit EXCEPT ![r] =
               [at |-> "lookup", part |-> CookieID[s], of |-> s, required |-> required,
                late |-> kratos[s] = "ended", as |-> NoIdentity]]
       \/ visit' = [visit EXCEPT ![r] =
               [at |-> "lookup", part |-> s, of |-> NoIdentity, required |-> required,
                late |-> FALSE, as |-> NoIdentity]]
  /\ UNCHANGED <<kratos, copies, vouched>>

\* getCachedSession: every copy is of an active session.  A GET that fails is
\* a miss.
GetCachedSession(r) ==
  /\ Visits(r, "lookup")
  /\ \/ visit[r].part \in copies /\ GoesAs(r, visit[r].part)
     \/ GoesTo(r, "ask")
  /\ UNCHANGED <<kratos, copies, vouched>>

\* Without a session a request goes on as nobody or is refused.
Unknown(r) == GoesTo(r, IF visit[r].required THEN "refused" ELSE "passed")

\* A middleware that does not look at Active.
ValidateAny(r) ==
  LET s == visit[r].of IN
  /\ Visits(r, "ask")
  /\ \/ s # NoIdentity /\ GoesAs(r, s)
     \/ Unknown(r)
  /\ vouched' = vouched \cup {t \in {s} \cap Identities : kratos[t] = "active"}
  /\ UNCHANGED <<kratos, copies>>

\* validateSession asks Kratos and the middleware looks at Active.  The call
\* may fail.
ValidateSession(r) ==
  LET s == visit[r].of IN
  /\ Visits(r, "ask")
  /\ \/ /\ s \in Identities /\ kratos[s] = "active"
        /\ GoesAs(r, s) /\ vouched' = vouched \cup {s}
     \/ Unknown(r) /\ UNCHANGED vouched
  /\ UNCHANGED <<kratos, copies>>

\* cacheSession: a SET that fails is only logged.
CacheSession(r) ==
  /\ Visits(r, "store")
  /\ copies' \in {copies, copies \cup {visit[r].as}}
  /\ GoesTo(r, "passed")
  /\ UNCHANGED <<kratos, vouched>>

KratosNext ==
  \/ KratosSessions
  \/ \E r \in CookieRequests :
       ComesIn(r) \/ GetCachedSession(r) \/ ValidateSession(r) \/ CacheSession(r)

----------------------------------------------------------------------------
\* Whatever cookies come, and in whatever order checks, ends of sessions and
\* writes of copies do: a request goes on only as the user of a session Kratos
\* has vouched for, and either that session's own cookie came with it and the
\* session had not ended before, or its cookie begins with that session's ID.
\* The latter is enough for ever once there is a copy: an ended session is
\* still known, by any cookie that begins with its ID.
KnownWasVouched ==
  \A r \in CookieRequests : LET v == visit[r] IN v.as # NoIdentity =>
    /\ v.as \in vouched
    /\ (v.of = v.as /\ ~v.late) \/ v.part = v.as
=============================================================================
